---- MODULE Spec2Model ----
(***************************************************************************)
(* Verification model of sparsity-tutorials:                               *)
(*   - util/server.py     Server (worker supervisor), worker, Handler.pipe *)
(*   - host/host_proxy.py HostProxyHandler (SNI extractor and proxy)       *)
(*   - host_server.py, loopback_server.py  the two tunnel handlers         *)
(*   - enclave/app.py, attestation.py  APP routes and the key managers     *)
(*   - client.py, enclave/app.py  the callers of a destination enclave     *)
(***************************************************************************)
EXTENDS Integers, Sequences, FiniteSets, TLC

(***************************************************************************)
(* Bounds of the model.                                                    *)
(***************************************************************************)
\* longest hostname a modelled ClientHello carries
MaxHostLen == 3

\* msg_peek = await reader.read(1024)
PeekSize == 1024
\* data = await reader.read(4096)
ChunkSize == 4096
\* largest process_num a Server is constructed with
MaxProcs == 2
\* worker crashes the environment may inject
MaxCrashes == 2
\* SIGINT/SIGTERM deliveries to the supervisor
MaxSignals == 2
\* connections the workers of one Server accept
MaxConns == 1

VARIABLES
    \* ---- Server (util/server.py) ----
    vsock,        \* Server.vsock
    process_num,  \* Server.process_num
    running,      \* Server.running
    processes,    \* Server.processes: the roster, a list of pids
    mpc,          \* position of the main thread inside Server.start
    hstack,       \* stack of running shutdown() invocations (signal handlers)
    alive,        \* pids of worker processes that are alive
    nextPid,      \* next pid the OS hands out
    terminated,   \* pids that were sent terminate()
    handles,      \* pids the listening handle was sent to, in order
    reports,      \* the counts logged by shutdown(), in order
    crashes,      \* worker crashes injected so far
    sigCount,     \* signals delivered so far
    \* ---- history of the supervisor ----
    popped,       \* pids the monitor removed from the roster, in order
    lateStarts,   \* pids started after a shutdown() had been invoked
    passes,       \* completed passes of the monitor's for loop
    passDead,     \* roster pids that were dead when the current pass began
    passQuiet,    \* no worker died since the current pass began
    \* ---- the listening socket and the worker processes (util/server.py) ----
    requested,    \* the process_num argument Server was constructed with
    server,       \* Server.server: the listening socket (the number names the socket)
    sockets,      \* listening sockets this Server has created
    fdsSent,      \* the handle each send_handle call passed, in order
    chan,         \* handles sent on parent_conn and not yet received from child_conn
    wfd,          \* per started worker: the handle recv_handle gave it, 0 before
    conns,        \* per started worker: the connections it accepted
    accepted,     \* connections accepted so far
    \* ---- HostProxyHandler.extract_sni (host/host_proxy.py) ----
    hello,        \* the ClientHello the client composed (what the input is made from)
    data,         \* extract_sni's argument: the peeked bytes
    sni,          \* extract_sni's result
    xpc,          \* "call" before extract_sni has run, "done" after
    \* ---- HostProxyHandler.handle_connection and Handler.pipe ----
    client,       \* the segments the client sends on the inbound connection
    dest,         \* the segments the destination sends on the outbound connection
    hpc,          \* position of handle_connection
    task,         \* the two Handler.pipe tasks: 1 is inbound->outbound, 2 the reverse
    outOpen,      \* the outbound connection exists (the dial succeeded)
    dials,        \* the (host, port) pairs dialed, in order
    arrived,      \* per connection: segments delivered to its StreamReader
    rpos,         \* per connection: bytes read from its StreamReader
    written,      \* per connection: bytes passed to its StreamWriter.write, in order
    closed,       \* per connection: its StreamWriter.close() was called
    lost,         \* per connection: "no", "clean" (closed), or the error that broke it
    eof,          \* per connection: the peer has closed its sending side
    congested,    \* per connection: the transport's write buffer is over its limit
    peekWrites,   \* how many times the peek was written to the outbound connection
    \* ---- APP.talk_to_ai of the enclave apps (enclave/app.py) ----
    variant,      \* which enclave app serves: "tls", "mcp" or "coin"
    initialized,  \* APP.initialized (the coin-price-bot app)
    treq,         \* the /talk request being handled
    tpc,          \* position of talk_to_ai
    tnonce,       \* talk_to_ai's local nonce
    effects,      \* what the handler has done for this request, in order
    reply,        \* what the handler answered
    attReply,     \* the document the /attestation route last returned
    served,       \* requests answered so far
    \* ---- the identity of the enclave process (enclave/app.py, attestation.py) ----
    appVsock,     \* APP.vsock
    key,          \* APP.key: the key manager with its key pair, nonce and fixed_document
    qreply,       \* what /ping or /query last answered
    \* ---- one use of the key managers' primitives between two parties ----
    cin,          \* the sender's call: its key pair, the peer it addresses, nonce, payload
    wire,         \* what is in flight: a /talk request or a signed response
    cout,         \* what decrypt or verify_signature returned at the receiving side
    \* ---- the callers of a TEE: ClientRequest (client.py), APP as a client ----
    caller,       \* "client" (ClientRequest) or "enclave" (APP of coin-price-bot)
    att,          \* the peer's reply to GET /attestation
    cpc,          \* position of the caller
    public_key,   \* ClientRequest.public_key / APP.dest_tee_public_key
    validated,    \* Verifier.verify_attestation returned True for the recorded key's document
    step,         \* the /talk exchange the caller is at: "url", "summary", "final"
    sent,         \* encrypted /talk requests sent to the peer
    resp,         \* the peer's response to the last request
    checked,      \* outcome of verify_signature on resp: "no" (not called), "true", "false"
    used,         \* the responses whose data the caller relied on
    urlsLeft      \* summaries still to request

supVars == <<vsock, process_num, running, processes, mpc, hstack, alive, nextPid,
             terminated, handles, reports, crashes, sigCount,
             popped, lateStarts, passes, passDead, passQuiet,
             requested, server, sockets, fdsSent, chan, wfd, conns, accepted>>

wkVars == <<requested, server, sockets, fdsSent, chan, wfd, conns, accepted>>

sniVars == <<hello, data, sni, xpc>>

pxVars == <<client, dest, hpc, task, outOpen, dials, arrived, rpos, written, closed,
            lost, eof, congested, peekWrites>>

talkVars == <<variant, initialized, treq, tpc, tnonce, effects, reply, attReply, served>>

callerVars == <<caller, att, cpc, public_key, validated, step, sent, resp, checked, used,
                urlsLeft>>

idVars == <<appVsock, key, qreply>>

cryptoVars == <<cin, wire, cout>>

appVars == <<talkVars, callerVars, idVars, cryptoVars>>

nonSupVars == <<sniVars, pxVars, appVars>>

vars == <<supVars, sniVars, pxVars, appVars>>

\* no /talk request, no reply
NoRequest ==
    [nonce |-> <<>>, plain |-> [kind |-> "none", api_key |-> "", platform |-> "", ai_model |-> ""]]

NoSig == [by |-> "", over |-> <<>>]

NoReply == [kind |-> "none", body |-> <<>>, sig |-> NoSig]

\* no attestation document, no key manager, no /attestation reply
NoDocument == [form |-> "none", attested |-> FALSE, fields |-> <<>>]

NoKey == [kind |-> "none", pair |-> "", nonce |-> <<>>, fixed_document |-> NoDocument]

NoAttReply == [attestation_doc |-> NoDocument, mock |-> "none"]

\* the enclave app is not part of the run
TalkIdle ==
    /\ appVsock = FALSE
    /\ key = NoKey
    /\ qreply = NoReply
    /\ variant = "tls"
    /\ initialized = FALSE
    /\ treq = NoRequest
    /\ tpc = "off"
    /\ tnonce = <<>>
    /\ effects = <<>>
    /\ reply = NoReply
    /\ attReply = NoAttReply
    /\ served = 0

NoAttestation == [mock |-> FALSE, genuine |-> FALSE, key |-> ""]

NoResponse == [kind |-> "none", genuineSig |-> FALSE]

\* no caller is part of the run
CallerIdle ==
    /\ caller = "client"
    /\ att = NoAttestation
    /\ cpc = "off"
    /\ public_key = ""
    /\ validated = FALSE
    /\ step = "none"
    /\ sent = 0
    /\ resp = NoResponse
    /\ checked = "no"
    /\ used = {}
    /\ urlsLeft = 0

NoCall == [op |-> "none", sender |-> "", recipient |-> "", receiver |-> "", nonce |-> <<>>,
           M |-> <<>>]

NoWire == [kind |-> "none", nonce |-> <<>>, public_key |-> <<>>, body |-> <<>>,
           sig |-> NoSig]

NoOut == [op |-> "none", ok |-> FALSE, plain |-> <<>>]

\* no primitive is in use
CryptoIdle ==
    /\ cin = NoCall
    /\ wire = NoWire
    /\ cout = NoOut

AppIdle == TalkIdle /\ CallerIdle /\ CryptoIdle

(***************************************************************************)
(* Helpers on lists.                                                       *)
(***************************************************************************)
Range(s) == {s[n] : n \in DOMAIN s}

\* list.pop(i) with a 0-based index i
ListPop(s, i) == [n \in 1..(Len(s) - 1) |-> IF n <= i THEN s[n] ELSE s[n + 1]]

(***************************************************************************)
(* Server.__init__                                                         *)
(***************************************************************************)
\* a constructor that takes process_num as it is given
ProcessNumAsRequested(vs, n) == n

\* if self.vsock: self.process_num = 1  else: self.process_num = process_num
ServerProcessNum(vs, n) == IF vs THEN 1 ELSE n

MainAt(at) == [at |-> at, k |-> 0, it |-> 0, i |-> 0, p |-> 0, ret |-> "none"]

InitServer ==
    /\ vsock \in BOOLEAN
    /\ requested \in 1..MaxProcs
    /\ process_num = ServerProcessNum(vsock, requested)
    /\ server = 1
    /\ sockets = 1
    /\ fdsSent = <<>>
    /\ chan = <<>>
    /\ wfd = <<>>
    /\ conns = <<>>
    /\ accepted = 0
    /\ running = TRUE
    /\ processes = <<>>
    /\ mpc = MainAt("start")
    /\ hstack = <<>>
    /\ alive = {}
    /\ nextPid = 1
    /\ terminated = {}
    /\ handles = <<>>
    /\ reports = <<>>
    /\ crashes = 0
    /\ sigCount = 0
    /\ popped = <<>>
    /\ lateStarts = {}
    /\ passes = 0
    /\ passDead = {}
    /\ passQuiet = TRUE

\* the supervisor at rest, for the specifications that are not about it
SupIdle ==
    /\ vsock = FALSE
    /\ requested = 1
    /\ process_num = 1
    /\ server = 1
    /\ sockets = 1
    /\ fdsSent = <<>>
    /\ chan = <<>>
    /\ wfd = <<>>
    /\ conns = <<>>
    /\ accepted = 0
    /\ running = TRUE
    /\ processes = <<>>
    /\ mpc = MainAt("start")
    /\ hstack = <<>>
    /\ alive = {}
    /\ nextPid = 1
    /\ terminated = {}
    /\ handles = <<>>
    /\ reports = <<>>
    /\ crashes = 0
    /\ sigCount = 0
    /\ popped = <<>>
    /\ lateStarts = {}
    /\ passes = 0
    /\ passDead = {}
    /\ passQuiet = TRUE

(***************************************************************************)
(* The main thread: Server.start, start_workers, start_one_worker,         *)
(* monitor_workers.  It runs only while no signal handler is running.      *)
(***************************************************************************)
MainRuns == hstack = <<>>

\* Server.start: install the handlers, then start_workers()
Start ==
    /\ MainRuns
    /\ mpc.at = "start"
    /\ mpc' = MainAt("sw_loop")
    /\ UNCHANGED <<vsock, process_num, running, processes, hstack, alive, nextPid,
                   terminated, handles, reports, crashes, sigCount,
                   popped, lateStarts, passes, passDead, passQuiet>>
    /\ UNCHANGED nonSupVars
    /\ UNCHANGED wkVars

\* start_workers: for _ in range(self.process_num): self.start_one_worker()
StartWorkersLoop ==
    /\ MainRuns
    /\ mpc.at = "sw_loop"
    /\ IF mpc.k < process_num
          THEN mpc' = [mpc EXCEPT !.at = "sow_start", !.k = mpc.k + 1, !.ret = "sw"]
          ELSE mpc' = MainAt("mon_while")
    /\ UNCHANGED <<vsock, process_num, running, processes, hstack, alive, nextPid,
                   terminated, handles, reports, crashes, sigCount,
                   popped, lateStarts, passes, passDead, passQuiet>>
    /\ UNCHANGED nonSupVars
    /\ UNCHANGED wkVars

\* start_one_worker: p = Process(...); p.start()
SowStart ==
    /\ MainRuns
    /\ mpc.at = "sow_start"
    /\ alive' = alive \cup {nextPid}
    /\ nextPid' = nextPid + 1
    /\ lateStarts' = IF sigCount > 0 THEN lateStarts \cup {nextPid} ELSE lateStarts
    /\ mpc' = [mpc EXCEPT !.at = "sow_append", !.p = nextPid]
    /\ wfd' = Append(wfd, 0)
    /\ conns' = Append(conns, {})
    /\ UNCHANGED <<vsock, process_num, running, processes, hstack,
                   terminated, handles, reports, crashes, sigCount,
                   popped, passes, passDead, passQuiet>>
    /\ UNCHANGED nonSupVars
    /\ UNCHANGED <<requested, server, sockets, fdsSent, chan, accepted>>

\* start_one_worker: self.processes.append(p)
RosterAppend(roster, p) == Append(roster, p)

SowAppend ==
    /\ MainRuns
    /\ mpc.at = "sow_append"
    /\ processes' = RosterAppend(processes, mpc.p)
    /\ mpc' = [mpc EXCEPT !.at = "sow_send"]
    /\ UNCHANGED <<vsock, process_num, running, hstack, alive, nextPid,
                   terminated, handles, reports, crashes, sigCount,
                   popped, lateStarts, passes, passDead, passQuiet>>
    /\ UNCHANGED nonSupVars
    /\ UNCHANGED wkVars

\* where start_one_worker returns to
SowReturn(m) ==
    IF m.ret = "sw"
       THEN [m EXCEPT !.at = "sw_loop", !.p = 0, !.ret = "none"]
       ELSE [m EXCEPT !.at = "mon_for", !.p = 0, !.i = 0, !.ret = "none"]

\* a send that passes a handle of its own making to each worker
FreshHandle(srv, n) == srv + n

\* self.server.fileno(): the handle of the one listening socket
HandleSent(srv, n) == srv

\* start_one_worker: send_handle(self.parent_conn, self.server.fileno(), p.pid)
\* succeeds and start_one_worker returns
SowSend ==
    /\ MainRuns
    /\ mpc.at = "sow_send"
    /\ handles' = Append(handles, mpc.p)
    /\ fdsSent' = Append(fdsSent, HandleSent(server, Len(fdsSent)))
    /\ chan' = Append(chan, HandleSent(server, Len(fdsSent)))
    /\ mpc' = SowReturn(mpc)
    /\ UNCHANGED <<vsock, process_num, running, processes, hstack, alive, nextPid,
                   terminated, reports, crashes, sigCount,
                   popped, lateStarts, passes, passDead, passQuiet>>
    /\ UNCHANGED nonSupVars
    /\ UNCHANGED <<requested, server, sockets, wfd, conns, accepted>>

\* send_handle raises: nothing catches it in start_one_worker, start_workers or
\* monitor_workers (which catches KeyboardInterrupt only), so Server.start raises
SowSendFails ==
    /\ MainRuns
    /\ mpc.at = "sow_send"
    /\ mpc' = [MainAt("raised") EXCEPT !.p = mpc.p]
    /\ UNCHANGED <<vsock, process_num, running, processes, hstack, alive, nextPid,
                   terminated, handles, reports, crashes, sigCount,
                   popped, lateStarts, passes, passDead, passQuiet>>
    /\ UNCHANGED nonSupVars
    /\ UNCHANGED wkVars

\* monitor_workers: while self.running:  and the creation of the for loop's iterator
MonWhile ==
    /\ MainRuns
    /\ mpc.at = "mon_while"
    /\ IF running
          THEN /\ mpc' = MainAt("mon_for")
               /\ passDead' = Range(processes) \ alive
               /\ passQuiet' = TRUE
          ELSE /\ mpc' = MainAt("returned")
               /\ UNCHANGED <<passDead, passQuiet>>
    /\ UNCHANGED <<vsock, process_num, running, processes, hstack, alive, nextPid,
                   terminated, handles, reports, crashes, sigCount,
                   popped, lateStarts, passes>>
    /\ UNCHANGED nonSupVars
    /\ UNCHANGED wkVars

\* a list iterator that skips every other element
IterNextSkipping(it) == it + 2

\* the list iterator's index after it has yielded the element at index it
IterNext(it) == it + 1

\* monitor_workers: for i, p in enumerate(self.processes): the list iterator reads
\* the element at its own index from the list as it is now
MonFor ==
    /\ MainRuns
    /\ mpc.at = "mon_for"
    /\ IF mpc.it < Len(processes)
          THEN /\ mpc' = [mpc EXCEPT !.at = "mon_alive", !.i = mpc.it,
                                     !.p = processes[mpc.it + 1], !.it = IterNext(mpc.it)]
               /\ UNCHANGED passes
          ELSE /\ mpc' = MainAt("mon_while")
               /\ passes' = IF passes < 2 THEN passes + 1 ELSE passes
    /\ UNCHANGED <<vsock, process_num, running, processes, hstack, alive, nextPid,
                   terminated, handles, reports, crashes, sigCount,
                   popped, lateStarts, passDead, passQuiet>>
    /\ UNCHANGED nonSupVars
    /\ UNCHANGED wkVars

\* monitor_workers: p.join(timeout=0.1); if not p.is_alive() ...
MonAlive ==
    /\ MainRuns
    /\ mpc.at = "mon_alive"
    /\ IF mpc.p \in alive
          THEN mpc' = [mpc EXCEPT !.at = "mon_for", !.i = 0, !.p = 0]
          ELSE mpc' = [mpc EXCEPT !.at = "mon_running"]
    /\ UNCHANGED <<vsock, process_num, running, processes, hstack, alive, nextPid,
                   terminated, handles, reports, crashes, sigCount,
                   popped, lateStarts, passes, passDead, passQuiet>>
    /\ UNCHANGED nonSupVars
    /\ UNCHANGED wkVars

\* monitor_workers: ... and self.running:
MonRunning ==
    /\ MainRuns
    /\ mpc.at = "mon_running"
    /\ IF running
          THEN mpc' = [mpc EXCEPT !.at = "mon_pop"]
          ELSE mpc' = [mpc EXCEPT !.at = "mon_for", !.i = 0, !.p = 0]
    /\ UNCHANGED <<vsock, process_num, running, processes, hstack, alive, nextPid,
                   terminated, handles, reports, crashes, sigCount,
                   popped, lateStarts, passes, passDead, passQuiet>>
    /\ UNCHANGED nonSupVars
    /\ UNCHANGED wkVars

\* a monitor that removes the head of the roster whichever worker it found dead
RosterPopFirst(roster, i) == Tail(roster)

\* a monitor that forgets to remove the dead worker
RosterPopOmitted(roster, i) == roster

\* monitor_workers: self.processes.pop(i)
RosterPop(roster, i) == ListPop(roster, i)

\* monitor_workers: self.processes.pop(i); self.start_one_worker()
MonPop ==
    /\ MainRuns
    /\ mpc.at = "mon_pop"
    /\ mpc.i < Len(processes)
    /\ popped' = Append(popped, processes[mpc.i + 1])
    /\ processes' = RosterPop(processes, mpc.i)
    /\ mpc' = [mpc EXCEPT !.at = "sow_start", !.p = 0, !.ret = "mon"]
    /\ UNCHANGED <<vsock, process_num, running, hstack, alive, nextPid,
                   terminated, handles, reports, crashes, sigCount,
                   lateStarts, passes, passDead, passQuiet>>
    /\ UNCHANGED nonSupVars
    /\ UNCHANGED wkVars

(***************************************************************************)
(* Server.shutdown, run as the SIGINT/SIGTERM handler (Server.start        *)
(* installs it for both).  A handler runs on the main thread between two   *)
(* of its steps, and a second signal may interrupt a running handler.      *)
(***************************************************************************)
Top == hstack[Len(hstack)]

SetTop(f) == [hstack EXCEPT ![Len(hstack)] = f]

HandlersInstalled == mpc.at \notin {"start", "returned", "raised"}

Signal ==
    /\ HandlersInstalled
    /\ sigCount < MaxSignals
    /\ sigCount' = sigCount + 1
    /\ hstack' = Append(hstack, [pc |-> "sd_set", idx |-> 0, seq |-> sigCount + 1,
                                 entryRoster |-> processes, termd |-> {}, joind |-> {},
                                 reported |-> 0])
    /\ UNCHANGED <<vsock, process_num, running, processes, mpc, alive, nextPid,
                   terminated, handles, reports, crashes,
                   popped, lateStarts, passes, passDead, passQuiet>>
    /\ UNCHANGED nonSupVars
    /\ UNCHANGED wkVars

\* shutdown: self.running = False
ShutdownSetRunning ==
    /\ hstack # <<>>
    /\ Top.pc = "sd_set"
    /\ running' = FALSE
    /\ hstack' = SetTop([Top EXCEPT !.pc = "sd_term"])
    /\ UNCHANGED <<vsock, process_num, processes, mpc, alive, nextPid,
                   terminated, handles, reports, crashes, sigCount,
                   popped, lateStarts, passes, passDead, passQuiet>>
    /\ UNCHANGED nonSupVars
    /\ UNCHANGED wkVars

\* the roster shutdown works on
ShutdownRoster(roster) == roster

\* shutdown: for p in self.processes: p.terminate()
ShutdownTerminate ==
    /\ hstack # <<>>
    /\ Top.pc = "sd_term"
    /\ IF Top.idx < Len(ShutdownRoster(processes))
          THEN /\ terminated' = terminated \cup {ShutdownRoster(processes)[Top.idx + 1]}
               /\ hstack' = SetTop([Top EXCEPT !.idx = Top.idx + 1,
                                       !.termd = Top.termd \cup {ShutdownRoster(processes)[Top.idx + 1]}])
          ELSE /\ hstack' = SetTop([Top EXCEPT !.pc = "sd_join", !.idx = 0])
               /\ UNCHANGED terminated
    /\ UNCHANGED <<vsock, process_num, running, processes, mpc, alive, nextPid,
                   handles, reports, crashes, sigCount,
                   popped, lateStarts, passes, passDead, passQuiet>>
    /\ UNCHANGED nonSupVars
    /\ UNCHANGED wkVars

\* a join that does not wait for the worker (as p.join(timeout=...) would)
JoinReturnsAtOnce(p) == TRUE

\* p.join() without a timeout returns once p is dead
JoinReturns(p) == p \notin alive

\* shutdown: for p in self.processes: p.join()
ShutdownJoin ==
    /\ hstack # <<>>
    /\ Top.pc = "sd_join"
    /\ IF Top.idx < Len(ShutdownRoster(processes))
          THEN /\ JoinReturns(ShutdownRoster(processes)[Top.idx + 1])
               /\ hstack' = SetTop([Top EXCEPT !.idx = Top.idx + 1,
                                       !.joind = Top.joind \cup {ShutdownRoster(processes)[Top.idx + 1]}])
          ELSE /\ hstack' = SetTop([Top EXCEPT !.pc = "sd_report", !.idx = 0])
    /\ UNCHANGED <<vsock, process_num, running, processes, mpc, alive, nextPid,
                   terminated, handles, reports, crashes, sigCount,
                   popped, lateStarts, passes, passDead, passQuiet>>
    /\ UNCHANGED nonSupVars
    /\ UNCHANGED wkVars

\* a shutdown that empties the roster once the workers are joined
RosterClearedByShutdown(roster) == <<>>

\* shutdown reads the roster and never assigns it
RosterAfterShutdown(roster) == roster

\* shutdown: logger.info(f"worker {len(self.processes)} terminated.")
ShutdownReport ==
    /\ hstack # <<>>
    /\ Top.pc = "sd_report"
    /\ reports' = Append(reports, Len(processes))
    /\ processes' = RosterAfterShutdown(processes)
    /\ hstack' = SetTop([Top EXCEPT !.pc = "sd_ret", !.reported = Len(processes)])
    /\ UNCHANGED <<vsock, process_num, running, mpc, alive, nextPid,
                   terminated, handles, crashes, sigCount,
                   popped, lateStarts, passes, passDead, passQuiet>>
    /\ UNCHANGED nonSupVars
    /\ UNCHANGED wkVars

\* shutdown returns: the interrupted code resumes
ShutdownReturn ==
    /\ hstack # <<>>
    /\ Top.pc = "sd_ret"
    /\ hstack' = SubSeq(hstack, 1, Len(hstack) - 1)
    /\ UNCHANGED <<vsock, process_num, running, processes, mpc, alive, nextPid,
                   terminated, handles, reports, crashes, sigCount,
                   popped, lateStarts, passes, passDead, passQuiet>>
    /\ UNCHANGED nonSupVars
    /\ UNCHANGED wkVars

(***************************************************************************)
(* The environment: worker processes die.                                  *)
(***************************************************************************)
\* a worker crashes
WorkerCrash ==
    /\ crashes < MaxCrashes
    /\ \E w \in alive :
          /\ alive' = alive \ {w}
          /\ crashes' = crashes + 1
          /\ passQuiet' = FALSE
    /\ UNCHANGED <<vsock, process_num, running, processes, mpc, hstack, nextPid,
                   terminated, handles, reports, sigCount,
                   popped, lateStarts, passes, passDead>>
    /\ UNCHANGED nonSupVars
    /\ UNCHANGED wkVars

\* a worker that was sent terminate() exits
WorkerExit ==
    /\ \E w \in alive \cap terminated :
          /\ alive' = alive \ {w}
          /\ passQuiet' = FALSE
    /\ UNCHANGED <<vsock, process_num, running, processes, mpc, hstack, nextPid,
                   terminated, handles, reports, crashes, sigCount,
                   popped, lateStarts, passes, passDead>>
    /\ UNCHANGED nonSupVars
    /\ UNCHANGED wkVars

\* worker: fd = recv_handle(pipe); sock = socket.fromfd(fd, ...); asyncio.run(start_server(...))
\* pipe is the one child_conn every worker was given: a worker receives whichever
\* handle is next in it
WorkerRecv ==
    /\ \E w \in alive :
          /\ wfd[w] = 0
          /\ chan # <<>>
          /\ wfd' = [wfd EXCEPT ![w] = Head(chan)]
          /\ chan' = Tail(chan)
    /\ UNCHANGED <<vsock, process_num, running, processes, mpc, hstack, alive, nextPid,
                   terminated, handles, reports, crashes, sigCount,
                   popped, lateStarts, passes, passDead, passQuiet>>
    /\ UNCHANGED nonSupVars
    /\ UNCHANGED <<requested, server, sockets, fdsSent, conns, accepted>>

\* start_server: a serving worker accepts a connection on the listening socket
WorkerAccept ==
    /\ accepted < MaxConns
    /\ \E w \in alive :
          /\ wfd[w] # 0
          /\ conns' = [conns EXCEPT ![w] = @ \cup {accepted + 1}]
          /\ accepted' = accepted + 1
    /\ UNCHANGED <<vsock, process_num, running, processes, mpc, hstack, alive, nextPid,
                   terminated, handles, reports, crashes, sigCount,
                   popped, lateStarts, passes, passDead, passQuiet>>
    /\ UNCHANGED nonSupVars
    /\ UNCHANGED <<requested, server, sockets, fdsSent, chan, wfd>>


(***************************************************************************)
(* TLS ClientHello bytes, as a client composes them (the format that       *)
(* extract_sni parses).  Bytes are the integers 0..255.                    *)
(***************************************************************************)
U16(n) == <<n \div 256, n % 256>>

U24(n) == <<n \div 65536, (n \div 256) % 256, n % 256>>

\* the 32 bytes of ClientHello.random
Random32 == [n \in 1..32 |-> (n * 7) % 256]

\* one extension record: type(2) length(2) payload
Extension(type, lenDelta, payload) == U16(type) \o U16(Len(payload) + lenDelta) \o payload

\* the payload of a server_name extension: list_len(2) type(1) name_len(2) name
ServerNameList(nameType, nameLenDelta, name) ==
    U16(3 + Len(name)) \o <<nameType>> \o U16(Len(name) + nameLenDelta) \o name

\* the extensions block of hello h: the extensions before, the server_name one, those after
ExtensionsOf(h) ==
    h.before
    \o (IF h.hasSni
           THEN Extension(0, h.extLenDelta, ServerNameList(h.nameType, h.nameLenDelta, h.host))
           ELSE <<>>)
    \o h.after

\* record header(5) handshake header(4) version(2) random(32) session id, cipher
\* suites, compression methods, extensions
HelloBytes(h) ==
    LET exts == ExtensionsOf(h)
        body == <<3, 3>> \o Random32
                \o <<Len(h.sid)>> \o h.sid
                \o U16(Len(h.cs)) \o h.cs
                \o <<Len(h.comp)>> \o h.comp
                \o (IF h.hasExts THEN U16(Len(exts) + h.totalDelta) \o exts ELSE <<>>)
        hs == <<h.hstype>> \o U24(Len(body)) \o body
    IN  <<h.ctype, 3, 1>> \o U16(Len(hs)) \o hs

\* hostnames: ASCII strings over 'a' and '.', 1..MaxHostLen bytes
RECURSIVE HostsOfLen(_)
HostsOfLen(n) ==
    IF n = 0 THEN {<<>>}
    ELSE {<<c>> \o t : c \in {97, 46}, t \in HostsOfLen(n - 1)}

Hosts == UNION {HostsOfLen(n) : n \in 1..MaxHostLen}

SessionIds == {<<>>, <<9, 0, 1, 22>>}

CipherSuites == {<<19, 1>>, <<19, 2, 0, 47, 0, 0>>}

CompressionMethods == {<<0>>, <<1, 0>>}

\* extensions of other types: supported_groups, an empty extended_master_secret,
\* and one whose payload looks like a server name list
OtherExtensions ==
    {<<>>,
     Extension(10, 0, <<0, 2, 0, 23>>),
     Extension(23, 0, <<>>) \o Extension(16, 0, <<0, 3, 0, 0, 1, 97>>)}

BaseHello ==
    [ctype |-> 22, hstype |-> 1, sid |-> <<>>, cs |-> <<19, 1>>, comp |-> <<0>>,
     hasExts |-> TRUE, before |-> <<>>, hasSni |-> TRUE, nameType |-> 0,
     host |-> <<97, 46, 97>>, nameLenDelta |-> 0, extLenDelta |-> 0,
     totalDelta |-> 0, after |-> <<>>]

\* well-formed ClientHellos that carry a server_name extension
SniHellos ==
    {[BaseHello EXCEPT !.sid = s, !.cs = c, !.comp = m, !.before = b, !.host = n, !.after = a] :
        s \in SessionIds, c \in CipherSuites, m \in CompressionMethods,
        b \in OtherExtensions, n \in Hosts, a \in {<<>>, Extension(10, 0, <<0, 2, 0, 23>>)}}

\* well-formed ClientHellos without a server_name extension: no extensions block,
\* an empty one, or only extensions of other types
NoSniHellos ==
    {[BaseHello EXCEPT !.hasSni = FALSE, !.hasExts = e, !.sid = s, !.before = b] :
        e \in BOOLEAN, s \in SessionIds, b \in OtherExtensions}

\* inputs that are not well-formed ClientHellos
MalformedHellos ==
    {[BaseHello EXCEPT !.ctype = 23],
     [BaseHello EXCEPT !.hstype = 2],
     [BaseHello EXCEPT !.nameType = 1],
     [BaseHello EXCEPT !.nameType = 1, !.after = Extension(0, 0, ServerNameList(0, 0, <<97>>))],
     [BaseHello EXCEPT !.host = <<>>],
     [BaseHello EXCEPT !.host = <<195, 169>>],
     [BaseHello EXCEPT !.host = <<97, 255>>],
     [BaseHello EXCEPT !.nameLenDelta = 2],
     [BaseHello EXCEPT !.extLenDelta = 3],
     [BaseHello EXCEPT !.extLenDelta = 3, !.after = Extension(10, 0, <<0, 2, 0, 23>>)],
     [BaseHello EXCEPT !.totalDelta = 4],
     [BaseHello EXCEPT !.totalDelta = -3],
     [BaseHello EXCEPT !.totalDelta = -3, !.before = Extension(23, 0, <<>>)],
     [BaseHello EXCEPT !.nameType = 255, !.before = Extension(10, 0, <<0, 2, 0, 23>>),
                       !.after = Extension(0, 0, ServerNameList(0, 0, <<97, 46>>))],
     [BaseHello EXCEPT !.hasSni = FALSE, !.before = Extension(10, 2, <<0, 2, 0, 23>>),
                       !.after = Extension(0, 0, ServerNameList(0, 0, <<97>>))]}

Hellos == SniHellos \cup NoSniHellos \cup MalformedHellos

\* what a read of at most n bytes can return when the client has sent bytes b so
\* far undelivered: any non-empty prefix of at most n bytes, or b"" at end of stream
Prefixes(b, n) == {SubSeq(b, 1, k) : k \in 0..(IF Len(b) < n THEN Len(b) ELSE n)}

(***************************************************************************)
(* HostProxyHandler.extract_sni                                            *)
(***************************************************************************)
None == [ok |-> FALSE, name |-> <<>>]

Some(name) == [ok |-> TRUE, name |-> name]

\* data[a:b] for 0 <= a
Slice(d, a, b) ==
    LET hi == IF b < Len(d) THEN b ELSE Len(d)
    IN  IF a >= hi THEN <<>> ELSE SubSeq(d, a + 1, hi)

\* data[i] is in range (otherwise Python raises IndexError)
HasIndex(d, i) == i < Len(d)

\* data[i], 0-based
At(d, i) == d[i + 1]

\* int.from_bytes(b, 'big'); 0 for b""
RECURSIVE FromBytes(_)
FromBytes(b) ==
    IF Len(b) = 0 THEN 0
    ELSE FromBytes(SubSeq(b, 1, Len(b) - 1)) * 256 + b[Len(b)]

IsCont(d, i) == HasIndex(d, i) /\ At(d, i) >= 128 /\ At(d, i) <= 191

\* bytes.decode(): strict UTF-8; the code points, or None for UnicodeDecodeError
RECURSIVE DecodeFrom(_, _, _)
DecodeFrom(d, i, acc) ==
    IF ~HasIndex(d, i) THEN Some(acc)
    ELSE LET b == At(d, i) IN
         IF b < 128 THEN DecodeFrom(d, i + 1, Append(acc, b))
         ELSE IF b >= 194 /\ b <= 223 /\ IsCont(d, i + 1)
            THEN DecodeFrom(d, i + 2, Append(acc, (b - 192) * 64 + (At(d, i + 1) - 128)))
         ELSE IF b >= 224 /\ b <= 239 /\ IsCont(d, i + 1) /\ IsCont(d, i + 2)
                 /\ (b = 224 => At(d, i + 1) >= 160) /\ (b = 237 => At(d, i + 1) <= 159)
            THEN DecodeFrom(d, i + 3, Append(acc, (b - 224) * 4096 + (At(d, i + 1) - 128) * 64
                                                  + (At(d, i + 2) - 128)))
         ELSE IF b >= 240 /\ b <= 244 /\ IsCont(d, i + 1) /\ IsCont(d, i + 2) /\ IsCont(d, i + 3)
                 /\ (b = 240 => At(d, i + 1) >= 144) /\ (b = 244 => At(d, i + 1) <= 143)
            THEN DecodeFrom(d, i + 4, Append(acc, (b - 240) * 262144 + (At(d, i + 1) - 128) * 4096
                                                  + (At(d, i + 2) - 128) * 64 + (At(d, i + 3) - 128)))
         ELSE None

Decode(d) == DecodeFrom(d, 0, <<>>)

\* a server-name parser that returns the raw list instead of the name
SniEntryWholeList(ext_data) ==
    IF ~HasIndex(ext_data, 2) THEN None
    ELSE IF At(ext_data, 2) # 0 THEN None
    ELSE Decode(Slice(ext_data, 3, 5 + FromBytes(Slice(ext_data, 3, 5))))

\* extract_sni: the body of `if ext_type == 0x00`; ext_data[2] raises IndexError
\* when the payload has fewer than 3 bytes, `break` leaves the loop for return None
SniEntry(ext_data) ==
    IF ~HasIndex(ext_data, 2) THEN None
    ELSE IF At(ext_data, 2) # 0 THEN None
    ELSE Decode(Slice(ext_data, 5, 5 + FromBytes(Slice(ext_data, 3, 5))))

\* a scan that goes on to the next extension when the name type is not host_name
RECURSIVE ScanExtensionsPastBadType(_, _, _)
ScanExtensionsPastBadType(d, idx, end) ==
    IF idx + 4 > end THEN None
    ELSE LET ext_type == FromBytes(Slice(d, idx, idx + 2))
             ext_len == FromBytes(Slice(d, idx + 2, idx + 4))
             ext_data == Slice(d, idx + 4, idx + 4 + ext_len)
         IN  IF ext_type = 0 /\ HasIndex(ext_data, 2) /\ At(ext_data, 2) = 0
                THEN SniEntry(ext_data)
                ELSE ScanExtensionsPastBadType(d, idx + 4 + ext_len, end)

\* a scan that reads the first extension as a server name, whatever its type
ScanExtensionsAnyType(d, idx, end) ==
    IF idx + 4 > end THEN None
    ELSE SniEntry(Slice(d, idx + 4, idx + 4 + FromBytes(Slice(d, idx + 2, idx + 4))))

\* extract_sni: while idx + 4 <= end: ...
RECURSIVE ScanExtensions(_, _, _)
ScanExtensions(d, idx, end) ==
    IF idx + 4 > end THEN None
    ELSE LET ext_type == FromBytes(Slice(d, idx, idx + 2))
             ext_len == FromBytes(Slice(d, idx + 2, idx + 4))
             ext_data == Slice(d, idx + 4, idx + 4 + ext_len)
         IN  IF ext_type = 0
                THEN SniEntry(ext_data)
                ELSE ScanExtensions(d, idx + 4 + ext_len, end)

\* extract_sni: from the session id to the extensions block; idx is 5 + 4 + 2 + 32
SkipToExtensions(d, idx) ==
    IF ~HasIndex(d, idx) THEN None
    ELSE LET idx1 == idx + 1 + At(d, idx)
             idx2 == idx1 + 2 + FromBytes(Slice(d, idx1, idx1 + 2))
         IN  IF ~HasIndex(d, idx2) THEN None
             ELSE LET idx3 == idx2 + 1 + At(d, idx2)
                      ext_total_len == FromBytes(Slice(d, idx3, idx3 + 2))
                  IN  ScanExtensions(d, idx3 + 2, idx3 + 2 + ext_total_len)

\* an extraction that does not look at the handshake type
ExtractSniAnyHandshake(d) ==
    IF Len(d) < 5 \/ At(d, 0) # 22 THEN None
    ELSE SkipToExtensions(d, 5 + 4 + 2 + 32)

\* extract_sni: the record type, the handshake type at offset 5 (IndexError when
\* the input has 5 bytes), then the fields up to the extensions
extract_sni(d) ==
    IF Len(d) < 5 \/ At(d, 0) # 22 THEN None
    ELSE IF ~HasIndex(d, 5) THEN None
    ELSE IF At(d, 5) # 1 THEN None
    ELSE SkipToExtensions(d, 5 + 4 + 2 + 32)

NoHello == [BaseHello EXCEPT !.ctype = 0]

SniIdle ==
    /\ hello = NoHello
    /\ data = <<>>
    /\ sni = None
    /\ xpc = "idle"

(***************************************************************************)
(* The two connections of a session and their asyncio streams.             *)
(*   "in"  : client <-> proxy (reader, writer of handle_connection)        *)
(*   "out" : proxy <-> destination (client_reader, client_writer)          *)
(***************************************************************************)
Conns == {"in", "out"}

\* the errors that break a connection; ECONNRESET is raised as ConnectionResetError
ErrKinds == {"ECONNRESET", "EPIPE", "ENOTCONN", "ETIMEDOUT"}

RECURSIVE Flatten(_)
Flatten(segs) == IF segs = <<>> THEN <<>> ELSE Head(segs) \o Flatten(Tail(segs))

NonEmpty(segs) == SelectSeq(segs, LAMBDA x : x # <<>>)

Incoming(c) == IF c = "in" THEN client ELSE dest

\* the bytes in c's StreamReader buffer
Unread(c) ==
    LET got == Flatten(SubSeq(Incoming(c), 1, arrived[c]))
    IN  SubSeq(got, rpos[c] + 1, Len(got))

IsPrefix(a, b) == Len(a) <= Len(b) /\ SubSeq(b, 1, Len(a)) = a

\* a read that returns everything buffered, whatever n
ReadsAllBuffered(c, n) ==
    IF lost[c] \in ErrKinds THEN [kind |-> "raise", err |-> lost[c], bytes |-> <<>>]
    ELSE IF Unread(c) # <<>> THEN [kind |-> "data", err |-> "none", bytes |-> Unread(c)]
    ELSE IF eof[c] \/ lost[c] = "clean" THEN [kind |-> "eof", err |-> "none", bytes |-> <<>>]
    ELSE [kind |-> "suspend", err |-> "none", bytes |-> <<>>]

\* await reader.read(n): raises the connection's error, returns up to n buffered
\* bytes, returns b"" at end of stream (the peer's, or our own close), or suspends
ReadOutcome(c, n) ==
    IF lost[c] \in ErrKinds THEN [kind |-> "raise", err |-> lost[c], bytes |-> <<>>]
    ELSE IF Unread(c) # <<>>
        THEN [kind |-> "data", err |-> "none",
              bytes |-> SubSeq(Unread(c), 1, IF Len(Unread(c)) < n THEN Len(Unread(c)) ELSE n)]
    ELSE IF eof[c] \/ lost[c] = "clean" THEN [kind |-> "eof", err |-> "none", bytes |-> <<>>]
    ELSE [kind |-> "suspend", err |-> "none", bytes |-> <<>>]

\* a drain that waits while any connection of the session is congested
DrainOutcomeShared(c) ==
    IF lost[c] \in ErrKinds THEN [kind |-> "raise", err |-> lost[c]]
    ELSE IF lost[c] = "clean" THEN [kind |-> "raise", err |-> "ECONNRESET"]
    ELSE IF \E x \in Conns : congested[x] THEN [kind |-> "suspend", err |-> "none"]
    ELSE [kind |-> "ok", err |-> "none"]

\* await writer.drain(): raises the connection's error (ConnectionResetError once
\* the connection is lost), returns when the buffer is under its limit, or suspends
DrainOutcome(c) ==
    IF lost[c] \in ErrKinds THEN [kind |-> "raise", err |-> lost[c]]
    ELSE IF lost[c] = "clean" THEN [kind |-> "raise", err |-> "ECONNRESET"]
    ELSE IF congested[c] THEN [kind |-> "suspend", err |-> "none"]
    ELSE [kind |-> "ok", err |-> "none"]

\* await writer.wait_closed() returns (or raises) once the connection is lost
WaitClosedReturns(c) == lost[c] # "no"

\* a pipe task: where it is, the chunk it holds, the exception it will re-raise,
\* the exception its try block raised, and whether it was cancelled
IdleTask == [pc |-> "idle", chunk |-> <<>>, exc |-> "none", caught |-> "none", canc |-> FALSE]

ConnIdle ==
    /\ outOpen = FALSE
    /\ dials = <<>>
    /\ arrived = [c \in Conns |-> 0]
    /\ rpos = [c \in Conns |-> 0]
    /\ written = [c \in Conns |-> <<>>]
    /\ closed = [c \in Conns |-> FALSE]
    /\ lost = [c \in Conns |-> "no"]
    /\ eof = [c \in Conns |-> FALSE]
    /\ congested = [c \in Conns |-> FALSE]
    /\ peekWrites = 0
    /\ task = [t \in {1, 2} |-> IdleTask]

ProxyIdle ==
    /\ client = <<>>
    /\ dest = <<>>
    /\ hpc = "idle"
    /\ ConnIdle

\* the ClientHellos the proxy is driven with
ProxySniHello == [BaseHello EXCEPT !.before = Extension(10, 0, <<0, 2, 0, 23>>)]

ProxyHellos ==
    {ProxySniHello,
     [BaseHello EXCEPT !.hasSni = FALSE, !.before = Extension(10, 0, <<0, 2, 0, 23>>)],
     [BaseHello EXCEPT !.hasSni = FALSE, !.hasExts = FALSE],
     [BaseHello EXCEPT !.ctype = 23],
     [BaseHello EXCEPT !.host = <<>>]}

\* what the client sends after its ClientHello, and what the destination answers
ClientAppData == <<200, 201>>

DestData == <<<<210, 211>>>>

\* the client's bytes arrive in segments: the first k bytes, the rest of the
\* ClientHello, then the application data; a client may also send nothing
ClientSegments(h, k) ==
    LET b == HelloBytes(h)
    IN  NonEmpty(<<SubSeq(b, 1, k), SubSeq(b, k + 1, Len(b)), ClientAppData>>)

\* where the first segment may end
FirstCuts(h) == {6, Len(HelloBytes(h)) - 1, Len(HelloBytes(h))}

\* a worker has accepted a connection and calls handle_connection(reader, writer)
InitProxy ==
    /\ SupIdle
    /\ AppIdle
    /\ \/ /\ hello \in ProxyHellos
          /\ \E k \in FirstCuts(hello) : client = ClientSegments(hello, k)
       \/ /\ hello = NoHello
          /\ client = <<>>
    /\ dest = DestData
    /\ data = <<>>
    /\ sni = None
    /\ xpc = "call"
    /\ hpc = "peek"
    /\ ConnIdle

(***************************************************************************)
(* HostProxyHandler.handle_connection                                      *)
(***************************************************************************)
\* msg_peek = await reader.read(1024) returns bytes, or b"" at end of stream
HcPeek ==
    /\ hpc = "peek"
    /\ ReadOutcome("in", PeekSize).kind \in {"data", "eof"}
    /\ data' = ReadOutcome("in", PeekSize).bytes
    /\ rpos' = [rpos EXCEPT !["in"] = @ + Len(ReadOutcome("in", PeekSize).bytes)]
    /\ hpc' = IF ReadOutcome("in", PeekSize).bytes = <<>> THEN "early_close" ELSE "extract"
    /\ UNCHANGED <<hello, sni, xpc, client, dest, task, outOpen, dials, arrived, written,
                   closed, lost, eof, congested, peekWrites, supVars, appVars>>

\* msg_peek = await reader.read(1024) raises: except Exception
HcPeekRaises ==
    /\ hpc = "peek"
    /\ ReadOutcome("in", PeekSize).kind = "raise"
    /\ hpc' = "exc_close"
    /\ UNCHANGED <<sniVars, client, dest, task, outOpen, dials, arrived, rpos, written,
                   closed, lost, eof, congested, peekWrites, supVars, appVars>>

\* a proxy that dials whatever extract_sni returned
DialsAnyResult(s) == TRUE

\* if sni is None: ... return; otherwise the handler goes on to dial
DialsOn(s) == s # None

\* sni = self.extract_sni(msg_peek); if sni is None: ...
HcExtract ==
    /\ hpc = "extract"
    /\ sni' = extract_sni(data)
    /\ xpc' = "done"
    /\ hpc' = IF DialsOn(extract_sni(data)) THEN "dial" ELSE "early_close"
    /\ UNCHANGED <<hello, data, client, dest, task, outOpen, dials, arrived, rpos, written,
                   closed, lost, eof, congested, peekWrites, supVars, appVars>>

\* open_connection(sni, 443)
DialTarget(s) == <<s.name, 443>>

\* client_reader, client_writer = await asyncio.open_connection(sni, 443) succeeds
HcDial ==
    /\ hpc = "dial"
    /\ dials' = Append(dials, DialTarget(sni))
    /\ outOpen' = TRUE
    /\ hpc' = "write_peek"
    /\ UNCHANGED <<sniVars, client, dest, task, arrived, rpos, written, closed, lost, eof,
                   congested, peekWrites, supVars, appVars>>

\* a handler that dials again when the dial failed
DialAgain == "dial"

\* where a raising open_connection leaves the handler: in its except block
AfterDialFails == "exc_close"

\* asyncio.open_connection(sni, 443) raises: except Exception
HcDialFails ==
    /\ hpc = "dial"
    /\ dials' = Append(dials, DialTarget(sni))
    /\ hpc' = AfterDialFails
    /\ UNCHANGED <<sniVars, client, dest, task, outOpen, arrived, rpos, written, closed,
                   lost, eof, congested, peekWrites, supVars, appVars>>

\* a proxy that forwards nothing of what it peeked
PeekDropped(peek) == <<>>

\* what client_writer.write(msg_peek) is given
PeekReplay(peek) == peek

\* client_writer.write(msg_peek)
HcWritePeek ==
    /\ hpc = "write_peek"
    /\ written' = [written EXCEPT !["out"] = @ \o PeekReplay(data)]
    /\ peekWrites' = peekWrites + 1
    /\ hpc' = "drain_peek"
    /\ UNCHANGED <<sniVars, client, dest, task, outOpen, dials, arrived, rpos, closed, lost,
                   eof, congested, supVars, appVars>>

\* await client_writer.drain() returns, or raises: except Exception
HcDrainPeek ==
    /\ hpc = "drain_peek"
    /\ DrainOutcome("out").kind \in {"ok", "raise"}
    /\ hpc' = IF DrainOutcome("out").kind = "ok" THEN "gather" ELSE "exc_close"
    /\ UNCHANGED <<sniVars, client, dest, task, outOpen, dials, arrived, rpos, written,
                   closed, lost, eof, congested, peekWrites, supVars, appVars>>

\* asyncio.gather(self.pipe(reader, client_writer), self.pipe(client_reader, writer))
\* schedules the two pipe tasks
HcGather ==
    /\ hpc = "gather"
    /\ task' = [t \in {1, 2} |-> [IdleTask EXCEPT !.pc = "read"]]
    /\ hpc' = "await_gather"
    /\ UNCHANGED <<sniVars, client, dest, outOpen, dials, arrived, rpos, written, closed,
                   lost, eof, congested, peekWrites, supVars, appVars>>

\* await asyncio.gather(...) returns once both pipes have returned
HcGatherReturns ==
    /\ hpc = "await_gather"
    /\ \A t \in {1, 2} : task[t].pc = "done"
    /\ hpc' = "done"
    /\ UNCHANGED <<sniVars, client, dest, task, outOpen, dials, arrived, rpos, written,
                   closed, lost, eof, congested, peekWrites, supVars, appVars>>

\* await asyncio.gather(...) raises as soon as one pipe has raised; the other pipe
\* is left running: except Exception
HcGatherRaises ==
    /\ hpc = "await_gather"
    /\ \E t \in {1, 2} : task[t].pc = "raised"
    /\ hpc' = "exc_close"
    /\ UNCHANGED <<sniVars, client, dest, task, outOpen, dials, arrived, rpos, written,
                   closed, lost, eof, congested, peekWrites, supVars, appVars>>

\* writer.close() of the two early returns and of the except block
HcClose ==
    /\ hpc \in {"early_close", "exc_close"}
    /\ closed' = [closed EXCEPT !["in"] = TRUE]
    /\ hpc' = "wait_closed"
    /\ UNCHANGED <<sniVars, client, dest, task, outOpen, dials, arrived, rpos, written,
                   lost, eof, congested, peekWrites, supVars, appVars>>

\* await writer.wait_closed(); handle_connection ends
HcWaitClosed ==
    /\ hpc = "wait_closed"
    /\ WaitClosedReturns("in")
    /\ hpc' = "done"
    /\ UNCHANGED <<sniVars, client, dest, task, outOpen, dials, arrived, rpos, written,
                   closed, lost, eof, congested, peekWrites, supVars, appVars>>

(***************************************************************************)
(* Handler.pipe(reader, writer)                                            *)
(***************************************************************************)
ReaderOf(t) == IF t = 1 THEN "in" ELSE "out"

WriterOf(t) == IF t = 1 THEN "out" ELSE "in"

\* a pipe that swallows whatever its loop raises
SwallowsEverything(err) == TRUE

\* except (asyncio.CancelledError, ConnectionResetError): pass
\* except OSError as e: if e.errno in (ENOTCONN, ECONNRESET, EPIPE): pass else: raise
Swallowed(err) == err \in {"CancelledError", "ECONNRESET", "ENOTCONN", "EPIPE"}

\* the pipe after an exception: the finally block runs, then the error is re-raised or not
AfterRaise(tk, err) ==
    [tk EXCEPT !.pc = "close", !.exc = IF Swallowed(err) THEN "none" ELSE err,
               !.caught = err]

\* data = await reader.read(4096); if not data: break
PipeRead(t) ==
    /\ task[t].pc = "read"
    /\ LET r == ReadOutcome(ReaderOf(t), ChunkSize) IN
       /\ r.kind # "suspend"
       /\ rpos' = [rpos EXCEPT ![ReaderOf(t)] = @ + Len(r.bytes)]
       /\ task' = [task EXCEPT ![t] =
                      IF r.kind = "data" THEN [@ EXCEPT !.pc = "write", !.chunk = r.bytes]
                      ELSE IF r.kind = "eof" THEN [@ EXCEPT !.pc = "close"]
                      ELSE AfterRaise(@, r.err)]
    /\ UNCHANGED <<sniVars, client, dest, hpc, outOpen, dials, arrived, written, closed,
                   lost, eof, congested, peekWrites, supVars, appVars>>

\* a pipe that writes each chunk twice
PipeWriteTwice(t) ==
    /\ task[t].pc = "write"
    /\ written' = [written EXCEPT ![WriterOf(t)] = @ \o task[t].chunk \o task[t].chunk]
    /\ task' = [task EXCEPT ![t].pc = "drain"]
    /\ UNCHANGED <<sniVars, client, dest, hpc, outOpen, dials, arrived, rpos, closed, lost,
                   eof, congested, peekWrites, supVars, appVars>>

\* writer.write(data)
PipeWrite(t) ==
    /\ task[t].pc = "write"
    /\ written' = [written EXCEPT ![WriterOf(t)] = @ \o task[t].chunk]
    /\ task' = [task EXCEPT ![t].pc = "drain"]
    /\ UNCHANGED <<sniVars, client, dest, hpc, outOpen, dials, arrived, rpos, closed, lost,
                   eof, congested, peekWrites, supVars, appVars>>

\* await writer.drain()
PipeDrain(t) ==
    /\ task[t].pc = "drain"
    /\ LET d == DrainOutcome(WriterOf(t)) IN
       /\ d.kind # "suspend"
       /\ task' = [task EXCEPT ![t] =
                      IF d.kind = "ok" THEN [@ EXCEPT !.pc = "read", !.chunk = <<>>]
                      ELSE AfterRaise([@ EXCEPT !.chunk = <<>>], d.err)]
    /\ UNCHANGED <<sniVars, client, dest, hpc, outOpen, dials, arrived, rpos, written,
                   closed, lost, eof, congested, peekWrites, supVars, appVars>>

\* finally: writer.close()
PipeClose(t) ==
    /\ task[t].pc = "close"
    /\ closed' = [closed EXCEPT ![WriterOf(t)] = TRUE]
    /\ task' = [task EXCEPT ![t].pc = "wait_closed"]
    /\ UNCHANGED <<sniVars, client, dest, hpc, outOpen, dials, arrived, rpos, written,
                   lost, eof, congested, peekWrites, supVars, appVars>>

\* finally: await writer.wait_closed() (its own errors swallowed); then pipe
\* returns, or re-raises the OSError it did not swallow
PipeWaitClosed(t) ==
    /\ task[t].pc = "wait_closed"
    /\ WaitClosedReturns(WriterOf(t))
    /\ task' = [task EXCEPT ![t].pc = IF task[t].exc = "none" THEN "done" ELSE "raised"]
    /\ UNCHANGED <<sniVars, client, dest, hpc, outOpen, dials, arrived, rpos, written,
                   closed, lost, eof, congested, peekWrites, supVars, appVars>>

PipeStep(t) ==
    \/ PipeRead(t)
    \/ PipeWrite(t)
    \/ PipeDrain(t)
    \/ PipeClose(t)
    \/ PipeWaitClosed(t)

\* the task is cancelled while it awaits (asyncio.run cancels every task that is
\* left when the worker's loop is torn down): CancelledError is thrown at the
\* await.  In read and drain the try block catches it; in the finally block's
\* wait_closed `except Exception` does not (CancelledError is a BaseException),
\* and pipe ends by raising it, in place of what it was going to re-raise
PipeCancel(t) ==
    /\ task[t].pc \in {"read", "drain", "wait_closed"}
    /\ ~task[t].canc
    /\ task' = [task EXCEPT ![t] =
                   IF task[t].pc = "wait_closed"
                      THEN [@ EXCEPT !.pc = "cancelled", !.exc = "CancelledError", !.canc = TRUE]
                      ELSE AfterRaise([@ EXCEPT !.chunk = <<>>, !.canc = TRUE], "CancelledError")]
    /\ UNCHANGED <<sniVars, client, dest, hpc, outOpen, dials, arrived, rpos, written,
                   closed, lost, eof, congested, peekWrites, supVars, appVars>>

\* await asyncio.gather(...) raises CancelledError when a pipe ended cancelled;
\* `except Exception` does not catch it and handle_connection ends by raising it
HcGatherCancelled ==
    /\ hpc = "await_gather"
    /\ \E t \in {1, 2} : task[t].pc = "cancelled"
    /\ hpc' = "cancelled"
    /\ UNCHANGED <<sniVars, client, dest, task, outOpen, dials, arrived, rpos, written,
                   closed, lost, eof, congested, peekWrites, supVars, appVars>>

(***************************************************************************)
(* The event loop's transports and the peers.                              *)
(***************************************************************************)
ConnExists(c) == c = "in" \/ outOpen

\* a closed transport whose buffer is flushed is lost on the loop's next turn;
\* its StreamReader is fed end of stream
ConnLost(c) ==
    /\ ConnExists(c)
    /\ closed[c]
    /\ lost[c] = "no"
    /\ ~congested[c]
    /\ lost' = [lost EXCEPT ![c] = "clean"]
    /\ UNCHANGED <<sniVars, client, dest, hpc, task, outOpen, dials, arrived, rpos,
                   written, closed, eof, congested, peekWrites, supVars, appVars>>

\* the peer's next segment reaches the StreamReader of an open transport
Arrive(c) ==
    /\ ConnExists(c)
    /\ ~closed[c]
    /\ lost[c] = "no"
    /\ ~eof[c]
    /\ arrived[c] < Len(Incoming(c))
    /\ arrived' = [arrived EXCEPT ![c] = @ + 1]
    /\ UNCHANGED <<sniVars, client, dest, hpc, task, outOpen, dials, rpos, written, closed,
                   lost, eof, congested, peekWrites, supVars, appVars>>

\* the peer closes its sending side
PeerEof(c) ==
    /\ ConnExists(c)
    /\ ~closed[c]
    /\ lost[c] = "no"
    /\ ~eof[c]
    /\ eof' = [eof EXCEPT ![c] = TRUE]
    /\ UNCHANGED <<sniVars, client, dest, hpc, task, outOpen, dials, arrived, rpos,
                   written, closed, lost, congested, peekWrites, supVars, appVars>>

\* the connection breaks with an error
PeerFails(c) ==
    /\ ConnExists(c)
    /\ lost[c] = "no"
    /\ \E e \in ErrKinds : lost' = [lost EXCEPT ![c] = e]
    /\ congested' = [congested EXCEPT ![c] = FALSE]
    /\ UNCHANGED <<sniVars, client, dest, hpc, task, outOpen, dials, arrived, rpos,
                   written, closed, eof, peekWrites, supVars, appVars>>

\* the peer stops reading: what was written fills the transport's buffer
Congest(c) ==
    /\ ConnExists(c)
    /\ lost[c] = "no"
    /\ written[c] # <<>>
    /\ ~congested[c]
    /\ congested' = [congested EXCEPT ![c] = TRUE]
    /\ UNCHANGED <<sniVars, client, dest, hpc, task, outOpen, dials, arrived, rpos,
                   written, closed, lost, eof, peekWrites, supVars, appVars>>

\* the peer reads again: the buffer drains
Uncongest(c) ==
    /\ congested[c]
    /\ congested' = [congested EXCEPT ![c] = FALSE]
    /\ UNCHANGED <<sniVars, client, dest, hpc, task, outOpen, dials, arrived, rpos,
                   written, closed, lost, eof, peekWrites, supVars, appVars>>

NextProxy ==
    \/ HcPeek
    \/ HcPeekRaises
    \/ HcExtract
    \/ HcDial
    \/ HcDialFails
    \/ HcWritePeek
    \/ HcDrainPeek
    \/ HcGather
    \/ HcGatherReturns
    \/ HcGatherRaises
    \/ HcClose
    \/ HcWaitClosed
    \/ \E t \in {1, 2} : PipeStep(t)
    \/ \E c \in Conns : ConnLost(c)
    \/ \E c \in Conns : Arrive(c)
    \/ \E c \in Conns : PeerEof(c)
    \/ \E c \in Conns : PeerFails(c)
    \/ \E c \in Conns : Congest(c)
    \/ \E c \in Conns : Uncongest(c)

(***************************************************************************)
(* HostConnectionHandler.handle_connection and                             *)
(* LoopbackHandler.handle_connection: connect to the configured peer, then *)
(* relay.  Neither has a try block.                                        *)
(***************************************************************************)
\* the peer client_generator was built for: ("host...", HOST_PROXY_SERVER_PORT)
Upstream == <<<<104, 111, 115, 116>>, 9981>>

\* a worker has accepted a connection and calls handle_connection(reader, writer)
InitTunnel ==
    /\ SupIdle
    /\ AppIdle
    /\ SniIdle
    /\ client \in {<<>>, <<ClientAppData>>, <<ClientAppData, <<202>>>>}
    /\ dest = DestData
    /\ hpc = "connect"
    /\ ConnIdle

\* client_reader, client_writer = await self.client_generator.async_connect() returns
ThConnect ==
    /\ hpc = "connect"
    /\ dials' = Append(dials, Upstream)
    /\ outOpen' = TRUE
    /\ hpc' = "gather"
    /\ UNCHANGED <<sniVars, client, dest, task, arrived, rpos, written, closed, lost, eof,
                   congested, peekWrites, supVars, appVars>>

\* async_connect() raises: nothing in handle_connection catches it, the handler's
\* task ends with the exception.  The stream protocol's done-callback of newer
\* asyncio versions closes the transport of such a task, older ones leave it open.
ThConnectFails ==
    /\ hpc = "connect"
    /\ dials' = Append(dials, Upstream)
    /\ hpc' = "raised"
    /\ \E runtimeCloses \in BOOLEAN :
          closed' = [closed EXCEPT !["in"] = runtimeCloses]
    /\ UNCHANGED <<sniVars, client, dest, task, outOpen, arrived, rpos, written, lost, eof,
                   congested, peekWrites, supVars, appVars>>

\* await asyncio.gather(...) raises as soon as one pipe has raised: the handler's
\* task ends with the exception
ThGatherRaises ==
    /\ hpc = "await_gather"
    /\ \E t \in {1, 2} : task[t].pc = "raised"
    /\ hpc' = "raised"
    /\ UNCHANGED <<sniVars, client, dest, task, outOpen, dials, arrived, rpos, written,
                   closed, lost, eof, congested, peekWrites, supVars, appVars>>

NextTunnel ==
    \/ ThConnect
    \/ ThConnectFails
    \/ HcGather
    \/ HcGatherReturns
    \/ ThGatherRaises
    \/ \E t \in {1, 2} : PipeStep(t)
    \/ \E c \in Conns : ConnLost(c)
    \/ \E c \in Conns : Arrive(c)
    \/ \E c \in Conns : PeerEof(c)
    \/ \E c \in Conns : PeerFails(c)
    \/ \E c \in Conns : Congest(c)
    \/ \E c \in Conns : Uncongest(c)

\* one connection accepted by a worker running HostConnectionHandler or LoopbackHandler
SpecTunnel == InitTunnel /\ [][NextTunnel]_vars


(***************************************************************************)
(* The specifications.                                                     *)
(***************************************************************************)
Init ==
    /\ InitServer
    /\ SniIdle
    /\ ProxyIdle
    /\ AppIdle

Next ==
    \/ Start
    \/ StartWorkersLoop
    \/ SowStart
    \/ SowAppend
    \/ SowSend
    \/ SowSendFails
    \/ MonWhile
    \/ MonFor
    \/ MonAlive
    \/ MonRunning
    \/ MonPop
    \/ Signal
    \/ ShutdownSetRunning
    \/ ShutdownTerminate
    \/ ShutdownJoin
    \/ ShutdownReport
    \/ ShutdownReturn
    \/ WorkerCrash
    \/ WorkerExit

Spec == Init /\ [][Next]_vars

NextWorkers ==
    \/ Next
    \/ WorkerRecv
    \/ WorkerAccept

\* the Server together with what its workers do with the handle
SpecWorkers == Init /\ [][NextWorkers]_vars

\* a caller hands extract_sni what one read(1024) of the client's bytes returned
InitSni ==
    /\ SupIdle
    /\ AppIdle
    /\ ProxyIdle
    /\ hello \in Hellos
    /\ data \in Prefixes(HelloBytes(hello), PeekSize)
    /\ sni = None
    /\ xpc = "call"

\* sni = self.extract_sni(msg_peek)
ExtractSni ==
    /\ xpc = "call"
    /\ sni' = extract_sni(data)
    /\ xpc' = "done"
    /\ UNCHANGED <<hello, data, supVars, pxVars, appVars>>

NextSni == ExtractSni

\* extract_sni applied to every modelled input
SpecSni == InitSni /\ [][NextSni]_vars

\* one connection accepted by a worker running HostProxyHandler
SpecProxy == InitProxy /\ [][NextProxy]_vars

\* a session as handle_connection leaves it when it awaits asyncio.gather: the whole
\* ClientHello was peeked and replayed, both pipe tasks are scheduled
InitRelay ==
    /\ SupIdle
    /\ AppIdle
    /\ hello = ProxySniHello
    /\ client = ClientSegments(hello, Len(HelloBytes(hello)))
    /\ dest = DestData
    /\ data = HelloBytes(hello)
    /\ sni = extract_sni(HelloBytes(hello))
    /\ xpc = "done"
    /\ hpc = "await_gather"
    /\ task = [t \in {1, 2} |-> [IdleTask EXCEPT !.pc = "read"]]
    /\ outOpen = TRUE
    /\ dials = <<DialTarget(extract_sni(HelloBytes(hello)))>>
    /\ arrived = [c \in Conns |-> IF c = "in" THEN 1 ELSE 0]
    /\ rpos = [c \in Conns |-> IF c = "in" THEN Len(HelloBytes(hello)) ELSE 0]
    /\ written = [c \in Conns |-> IF c = "out" THEN PeekReplay(HelloBytes(hello)) ELSE <<>>]
    /\ closed = [c \in Conns |-> FALSE]
    /\ lost = [c \in Conns |-> "no"]
    /\ eof = [c \in Conns |-> FALSE]
    /\ congested = [c \in Conns |-> FALSE]
    /\ peekWrites = 1

NextRelay ==
    \/ HcGatherReturns
    \/ HcGatherRaises
    \/ HcClose
    \/ HcWaitClosed
    \/ \E t \in {1, 2} : PipeStep(t)
    \/ \E c \in Conns : ConnLost(c)
    \/ \E c \in Conns : Arrive(c)
    \/ \E c \in Conns : PeerEof(c)
    \/ \E c \in Conns : PeerFails(c)
    \/ \E c \in Conns : Congest(c)
    \/ \E c \in Conns : Uncongest(c)

\* what the event loop guarantees: a task that can run is run, and a closed
\* transport with nothing left to send is torn down.  Nothing is assumed of the peers.
LoopFairness ==
    /\ WF_vars(PipeStep(1))
    /\ WF_vars(PipeStep(2))
    /\ WF_vars(HcGatherReturns \/ HcGatherRaises \/ HcClose \/ HcWaitClosed)
    /\ WF_vars(ConnLost("in"))
    /\ WF_vars(ConnLost("out"))

\* the relay of one session, scheduled by the event loop
SpecRelayFair == InitRelay /\ [][NextRelay]_vars /\ LoopFairness

\* a segment one byte longer than a pipe reads at once
BulkSegment == [i \in 1..(ChunkSize + 1) |-> 210 + (i % 7)]

\* the streams of a session, <<client's segments, destination's segments>>: several
\* short segments each way, or one long answer
RelayStreams ==
    {<<ClientSegments(ProxySniHello, Len(HelloBytes(ProxySniHello))) \o <<<<202>>>>,
       <<<<210, 211>>, <<212>>>>>>,
     <<ClientSegments(ProxySniHello, Len(HelloBytes(ProxySniHello))), <<BulkSegment>>>>}

\* sessions at the await of asyncio.gather, with any of the streams above
InitRelayStreams ==
    /\ SupIdle
    /\ AppIdle
    /\ hello = ProxySniHello
    /\ \E st \in RelayStreams : client = st[1] /\ dest = st[2]
    /\ data = HelloBytes(hello)
    /\ sni = extract_sni(HelloBytes(hello))
    /\ xpc = "done"
    /\ hpc = "await_gather"
    /\ task = [t \in {1, 2} |-> [IdleTask EXCEPT !.pc = "read"]]
    /\ outOpen = TRUE
    /\ dials = <<DialTarget(extract_sni(HelloBytes(hello)))>>
    /\ arrived = [c \in Conns |-> IF c = "in" THEN 1 ELSE 0]
    /\ rpos = [c \in Conns |-> IF c = "in" THEN Len(HelloBytes(hello)) ELSE 0]
    /\ written = [c \in Conns |-> IF c = "out" THEN PeekReplay(HelloBytes(hello)) ELSE <<>>]
    /\ closed = [c \in Conns |-> FALSE]
    /\ lost = [c \in Conns |-> "no"]
    /\ eof = [c \in Conns |-> FALSE]
    /\ congested = [c \in Conns |-> FALSE]
    /\ peekWrites = 1

\* the relay, in a worker whose loop may be torn down at any await
NextRelayTeardown ==
    \/ NextRelay
    \/ \E t \in {1, 2} : PipeCancel(t)
    \/ HcGatherCancelled

\* one relayed session in a worker that may be torn down
SpecRelay == InitRelay /\ [][NextRelayTeardown]_vars

\* relayed sessions carrying streams of several segments and sizes
SpecRelayStreams == InitRelayStreams /\ [][NextRelay]_vars

(***************************************************************************)
(* Properties of the supervisor.                                           *)
(***************************************************************************)
\* the monitor is at an iteration boundary: the top of its while loop or of its for loop
AtMonitorBoundary == mpc.at \in {"mon_while", "mon_for"}

\* the shutdown invocations that have run to their last statement
ReturningFrames == {n \in DOMAIN hstack : hstack[n].pc = "sd_ret"}

\* C1: while running is true, at every iteration boundary of the monitor loop the
\* roster holds exactly process_num entries; every removal so far took a dead worker
\* out of the roster and was followed by the start of exactly one replacement
C1_RosterKeptAtTarget ==
    (AtMonitorBoundary /\ running) =>
        /\ Len(processes) = process_num
        /\ nextPid - 1 = process_num + Len(popped)
        /\ Range(popped) \cap alive = {}
        /\ Range(popped) \cap Range(processes) = {}
        /\ Cardinality(Range(processes)) = Len(processes)

C1_Witness ==
    /\ mpc.at = "mon_for"
    /\ running
    /\ Len(popped) >= 1
    /\ Len(processes) = process_num
    /\ process_num = 2

\* C2: when exactly one worker of the roster is dead as a pass of the monitor begins,
\* running stays true, no shutdown is invoked and no other worker dies, then at the
\* end of that pass the dead worker is out of the roster and process_num workers,
\* all alive, are in it
C2_HealedWithinOnePass ==
    (/\ mpc.at = "mon_while"
     /\ passes >= 1
     /\ running
     /\ sigCount = 0
     /\ Cardinality(passDead) = 1
     /\ passQuiet) =>
        /\ passDead \cap Range(processes) = {}
        /\ Range(processes) \subseteq alive
        /\ Len(processes) = process_num
        /\ Cardinality(alive) = process_num

C2_Witness ==
    /\ mpc.at = "mon_while"
    /\ passes >= 1
    /\ running
    /\ sigCount = 0
    /\ Cardinality(passDead) = 1
    /\ passQuiet
    /\ process_num = 2
    /\ Range(processes) \subseteq alive

\* C3: when shutdown() reaches its return, running is false, every worker of the
\* roster was sent terminate and was joined by this invocation, the count it logged
\* is the size of the roster, and no worker of the roster is alive
C3_ShutdownTerminatesRoster ==
    \A n \in ReturningFrames :
        /\ running = FALSE
        /\ Range(processes) \subseteq hstack[n].termd
        /\ Range(processes) \subseteq hstack[n].joind
        /\ hstack[n].reported = Len(processes)
        /\ Range(processes) \cap alive = {}

C3_Witness ==
    \E n \in ReturningFrames :
        /\ Len(processes) = 2
        /\ hstack[n].joind = Range(processes)

\* C4: once a shutdown() run as a signal handler has returned and the interrupted
\* code has resumed, no worker is started any more and no worker this Server
\* started is alive
C4_ShutdownInterruptSafe ==
    (sigCount > 0 /\ hstack = <<>>) => (lateStarts = {} /\ alive = {})

\* C5: a shutdown() invoked after an earlier one (after it returned, or while it
\* was still running) returns with running false, the roster it found and every
\* worker of it dead, having logged the same count
C5_ShutdownIdempotent ==
    \A n \in ReturningFrames :
        hstack[n].seq >= 2 =>
            /\ running = FALSE
            /\ processes = hstack[n].entryRoster
            /\ Range(processes) \cap alive = {}
            /\ hstack[n].reported = Len(hstack[n].entryRoster)

\* a second shutdown() returns inside the first one, which is still joining
C5_Witness ==
    /\ Len(hstack) = 2
    /\ hstack[1].pc = "sd_join"
    /\ hstack[2].pc = "sd_ret"
    /\ hstack[2].seq = 2
    /\ Len(processes) = 2

(***************************************************************************)
(* Properties of extract_sni.                                              *)
(***************************************************************************)
\* the input is a complete well-formed ClientHello with a server_name extension
WellFormedWithSni == hello \in SniHellos /\ data = HelloBytes(hello)

\* C7: for every well-formed ClientHello that carries a server_name extension and
\* is wholly in the peek, extract_sni returns exactly the hostname in it
C7_ExtractsEmbeddedHostname ==
    (xpc = "done" /\ WellFormedWithSni) => sni = Some(hello.host)

C7_Witness ==
    /\ xpc = "done"
    /\ WellFormedWithSni
    /\ hello.sid # <<>>
    /\ Len(hello.cs) > 2
    /\ Len(hello.comp) > 1
    /\ Len(hello.before) > 8
    /\ Len(hello.host) = MaxHostLen
    /\ sni = Some(hello.host)

\* the extension records from idx up to the declared end of the block: one declares
\* a payload, or the server name a length, that ends past the end of d
RECURSIVE ExtensionOverruns(_, _, _)
ExtensionOverruns(d, idx, end) ==
    IF idx + 4 > end THEN FALSE
    ELSE LET ext_type == FromBytes(Slice(d, idx, idx + 2))
             ext_len == FromBytes(Slice(d, idx + 2, idx + 4))
         IN  IF idx + 4 + ext_len > Len(d) THEN TRUE
             ELSE IF ext_type = 0
                THEN ext_len >= 5 /\ idx + 9 + FromBytes(Slice(d, idx + 7, idx + 9)) > Len(d)
                ELSE ExtensionOverruns(d, idx + 4 + ext_len, end)

\* some length field that is present in d (session id, cipher suites, compression
\* methods, extensions total, an extension, the server name) declares more bytes
\* than d holds
DeclaredLengthOverruns(d) ==
    IF ~HasIndex(d, 43) THEN FALSE
    ELSE LET sidEnd == 44 + At(d, 43) IN
    IF sidEnd > Len(d) THEN TRUE
    ELSE IF sidEnd + 2 > Len(d) THEN FALSE
    ELSE LET csEnd == sidEnd + 2 + FromBytes(Slice(d, sidEnd, sidEnd + 2)) IN
    IF csEnd > Len(d) THEN TRUE
    ELSE IF ~HasIndex(d, csEnd) THEN FALSE
    ELSE LET compEnd == csEnd + 1 + At(d, csEnd) IN
    IF compEnd > Len(d) THEN TRUE
    ELSE IF compEnd + 2 > Len(d) THEN FALSE
    ELSE LET extEnd == compEnd + 2 + FromBytes(Slice(d, compEnd, compEnd + 2)) IN
    IF extEnd > Len(d) THEN TRUE
    ELSE ExtensionOverruns(d, compEnd + 2, extEnd)

\* C8: for an input whose byte 0 is not 0x16, or in which a declared length runs
\* past the end of the peeked bytes, extract_sni returns None
C8_TruncatedYieldsNone ==
    (/\ xpc = "done"
     /\ \/ (Len(data) >= 1 /\ At(data, 0) # 22)
        \/ DeclaredLengthOverruns(data)) => sni = None

(***************************************************************************)
(* APP.talk_to_ai, APP.attestation and APP.response of the enclave apps:   *)
(*   "tls"  tee-tee-tls/sim-tee/sample_code/enclave/app.py                 *)
(*   "mcp"  agent-mcp/sim-tee/sample_code/enclave/app.py                   *)
(*   "coin" coin-price-bot/sim-tee/sample_code/enclave/app.py              *)
(***************************************************************************)
MaxNonceBytes == 9

MaxRequests == 2

\* if len(nonce) < 8
MinNonceLen == 8

Variants == {"tls", "mcp", "coin"}

\* a nonce of n bytes
NonceOfLen(n) == [i \in 1..n |-> (i * 37) % 256]

\* a character that is not a hexadecimal digit (the digits are 0..15)
NotHex == 16

\* bytes.hex(): two digits for each byte
Hex(b) ==
    [i \in 1..(2 * Len(b)) |->
        IF i % 2 = 1 THEN b[(i + 1) \div 2] \div 16 ELSE b[i \div 2] % 16]

\* bytes.fromhex(h): ValueError for an odd number of digits or a character that
\* is not a digit, otherwise one byte for each two digits
FromHex(h) ==
    IF Len(h) % 2 = 1 \/ (\E i \in 1..Len(h) : h[i] > 15)
       THEN [ok |-> FALSE, val |-> <<>>]
       ELSE [ok |-> TRUE, val |-> [i \in 1..(Len(h) \div 2) |-> h[2 * i - 1] * 16 + h[2 * i]]]

\* req.nonce: the hex of 0..MaxNonceBytes bytes, a string with an odd number of
\* digits, a string holding a character that is not a digit
NonceHexes ==
    {Hex(NonceOfLen(n)) : n \in 0..MaxNonceBytes}
        \cup {SubSeq(Hex(NonceOfLen(4)), 1, 7), [Hex(NonceOfLen(8)) EXCEPT ![3] = NotHex]}

\* what req.data holds: a ChatData, a JSON object without api_key, or bytes that
\* self.key.decrypt refuses.  ai_model is "listed" when the platform's
\* check_support_model accepts it.
ChatDatas ==
    [kind : {"chat"}, api_key : {"", "sk"}, platform : {"openai", "anthropic", "nope"},
     ai_model : {"", "listed", "unlisted"}]

Plains ==
    ChatDatas \cup
        {[kind |-> k, api_key |-> "", platform |-> "", ai_model |-> ""] :
            k \in {"undecryptable", "no_api_key"}}

Requests == [nonce : NonceHexes, plain : Plains]

\* self.platform_mapping
platform_mapping == {"openai", "anthropic", "gemini"}

\* a platform that accepts every model name
AcceptsAnyModel(model) == TRUE

\* Platform.check_support_model
check_support_model(model) == model = "listed"

\* self.key, the key manager of the process
AppKey == "enclave-key"

OtherKey == "other-key"

\* self.key.sign(data)
Sign(pair, msg) == [by |-> pair, over |-> msg]

\* get_public_key_der() of a key manager
PublicKeyOf(pair) == <<"public", pair>>

\* JSONResponse({"error": msg})
ErrorReply(msg) == [kind |-> "error", body |-> <<msg>>, sig |-> NoSig]

\* an exception leaves the handler: the framework answers 500
Crash(exc) == [kind |-> "crash", body |-> <<exc>>, sig |-> NoSig]

\* the key pairs Signer.__init__ may generate
KeyPairs == {AppKey, OtherKey}

\* os.urandom, bounded to two outcomes
Randoms == {<<7>>, <<9>>}

\* b"tee-tls"
TeeTls == <<116, 101, 101, 45, 116, 108, 115>>

\* Signer.get_public_key_hash()
get_public_key_hash(pair) == <<"sha", PublicKeyOf(pair)>>

\* EnclaveKeyManager.generate_attestation: the NSM document binds user_data (the
\* hash of the public key), the nonce and the public key; base64 of the result
NsmAttestation(pair, nonce) ==
    [form |-> "base64", attested |-> TRUE,
     fields |-> [user_data |-> get_public_key_hash(pair), nonce |-> nonce,
                 public_key |-> PublicKeyOf(pair)]]

\* MockFixedKeyManager.generate_attestation:
\* {"nonce": nonce.hex(), "public_key": self.get_public_key_der().hex()}
MockAttestation(pair, nonce) ==
    [form |-> "dict", attested |-> FALSE,
     fields |-> [nonce |-> Hex(nonce), public_key |-> PublicKeyOf(pair)]]

\* generate_attestation of the key manager of kind k
generate_attestation(k, pair, nonce) ==
    IF k = "hardware" THEN NsmAttestation(pair, nonce) ELSE MockAttestation(pair, nonce)

\* FixedKeyManager.__init__ (nonce=None): self.nonce = b"tee-tls" + os.urandom(32);
\* the key pair is generated; self.fixed_document = self.generate_attestation(self.nonce)
FixedKeyManager(k, pair, rnd) ==
    [kind |-> k, pair |-> pair, nonce |-> TeeTls \o rnd,
     fixed_document |-> generate_attestation(k, pair, TeeTls \o rnd)]

\* APP.__init__: self.key = FixedKeyManager() if vsock else MockFixedKeyManager()
KeyManagerKind(vs) == IF vs THEN "hardware" ELSE "mock"

\* a route that makes a new document for every reply
DocumentRegenerated(k) == generate_attestation(k.kind, k.pair, <<served>>)

\* self.key.fixed_document
DocumentServed(k) == k.fixed_document

\* a route that flags every reply as mock
MockFlagAlways(vs) == "true"

\* APP.attestation: "mock": True is in the reply of the branch taken without vsock
MockFlag(vs) == IF vs THEN "absent" ELSE "true"

\* a response that signs something else than the data it returns
ResponseSignsOther(d) == [kind |-> "signed", body |-> d, sig |-> Sign(key.pair, <<"other">>)]

\* APP.response(data): {"sig": self.key.sign(data).hex(), "data": data}
Response(d) == [kind |-> "signed", body |-> d, sig |-> Sign(key.pair, d)]

\* a nonce check that is off by one
NonceTooShortOffByOne(nonce) == Len(nonce) < MinNonceLen - 1

\* if len(nonce) < 8
NonceTooShort(nonce) == Len(nonce) < MinNonceLen

notTalk == <<supVars, sniVars, pxVars, callerVars, idVars, cryptoVars>>

\* the app is up and waits for requests
InitTalk ==
    /\ SupIdle
    /\ SniIdle
    /\ ProxyIdle
    /\ CallerIdle
    /\ CryptoIdle
    /\ variant \in Variants
    /\ appVsock = FALSE
    /\ key = FixedKeyManager(KeyManagerKind(appVsock), AppKey, <<7>>)
    /\ qreply = NoReply
    /\ initialized = FALSE
    /\ treq = NoRequest
    /\ tpc = "idle"
    /\ tnonce = <<>>
    /\ effects = <<>>
    /\ reply = NoReply
    /\ attReply = NoAttReply
    /\ served = 0

\* GET /attestation
Attestation ==
    /\ tpc = "idle"
    /\ attReply' = [attestation_doc |-> DocumentServed(key), mock |-> MockFlag(appVsock)]
    /\ UNCHANGED <<variant, initialized, treq, tpc, tnonce, effects, reply, served, notTalk>>

\* GET /ping: {"pong": int(time.time())}
Ping ==
    /\ tpc = "idle"
    /\ qreply' = [kind |-> "pong", body |-> <<"pong">>, sig |-> NoSig]
    /\ UNCHANGED <<talkVars, appVsock, key, supVars, sniVars, pxVars, callerVars, cryptoVars>>

\* GET /query: data = requests.get(...).json(); return self.response(data)
Query ==
    /\ tpc = "idle"
    /\ \E ok \in BOOLEAN :
          qreply' = IF ok THEN Response(<<"serverTime">>) ELSE Crash("requests")
    /\ UNCHANGED <<talkVars, appVsock, key, supVars, sniVars, pxVars, callerVars, cryptoVars>>

\* POST /talk arrives; the coin app starts with `if not self.initialized`
TalkRequest ==
    /\ tpc = "idle"
    /\ served < MaxRequests
    /\ treq' \in Requests
    /\ tpc' = IF variant = "coin" /\ ~initialized THEN "init_keys" ELSE "nonce"
    /\ tnonce' = <<>>
    /\ effects' = <<>>
    /\ reply' = NoReply
    /\ UNCHANGED <<variant, initialized, attReply, served, notTalk>>

\* coin: self.init_keys() queries the destination's /attestation; it raises
\* Exception('Attestation failed') when verify_attestation returns False
TalkInitKeys ==
    /\ tpc = "init_keys"
    /\ effects' = Append(effects, "attestation_query")
    /\ \E ok \in BOOLEAN :
          IF ok THEN /\ initialized' = TRUE
                     /\ tpc' = "nonce"
                     /\ reply' = reply
                ELSE /\ initialized' = initialized
                     /\ tpc' = "replied"
                     /\ reply' = Crash("Attestation failed")
    /\ UNCHANGED <<variant, treq, tnonce, attReply, served, notTalk>>

\* nonce = bytes.fromhex(req.nonce); if len(nonce) < 8: return {"error": ...}
TalkNonce ==
    /\ tpc = "nonce"
    /\ LET n == FromHex(treq.nonce) IN
       IF ~n.ok
          THEN /\ reply' = Crash("ValueError")
               /\ tpc' = "replied"
               /\ tnonce' = tnonce
       ELSE IF NonceTooShort(n.val)
          THEN /\ reply' = ErrorReply("invalid nonce, must be at least 8 characters long")
               /\ tpc' = "replied"
               /\ tnonce' = n.val
       ELSE /\ reply' = reply
            /\ tpc' = "decrypt"
            /\ tnonce' = n.val
    /\ UNCHANGED <<variant, initialized, treq, effects, attReply, served, notTalk>>

\* raw_data = self.key.decrypt(public_key, nonce, data)
TalkDecrypt ==
    /\ tpc = "decrypt"
    /\ effects' = Append(effects, "decrypt")
    /\ IF treq.plain.kind = "undecryptable"
          THEN reply' = Crash("decrypt") /\ tpc' = "replied"
          ELSE reply' = reply /\ tpc' = "parse"
    /\ UNCHANGED <<variant, initialized, treq, tnonce, attReply, served, notTalk>>

\* chat_data = ChatData(**json.loads(raw_data)): TypeError without api_key
TalkParse ==
    /\ tpc = "parse"
    /\ IF treq.plain.kind = "no_api_key"
          THEN reply' = Crash("TypeError") /\ tpc' = "replied"
          ELSE /\ reply' = reply
               /\ tpc' = IF variant = "coin" THEN "forward" ELSE "check_api_key"
    /\ UNCHANGED <<variant, initialized, treq, tnonce, effects, attReply, served, notTalk>>

\* if chat_data.api_key == "": return {"error": ...}
TalkCheckApiKey ==
    /\ tpc = "check_api_key"
    /\ effects' = Append(effects, "check_api_key")
    /\ IF treq.plain.api_key = ""
          THEN /\ reply' = ErrorReply(IF variant = "tls" THEN "invalid api_key" ELSE "empty api_key")
               /\ tpc' = "replied"
          ELSE /\ reply' = reply
               /\ tpc' = IF variant = "tls" THEN "check_platform" ELSE "check_model"
    /\ UNCHANGED <<variant, initialized, treq, tnonce, attReply, served, notTalk>>

\* tls: if self.platform_mapping.get(chat_data.platform) is None: return {"error": ...}
TalkCheckPlatform ==
    /\ tpc = "check_platform"
    /\ effects' = Append(effects, "check_platform")
    /\ IF treq.plain.platform \notin platform_mapping
          THEN reply' = ErrorReply("invalid platform") /\ tpc' = "replied"
          ELSE reply' = reply /\ tpc' = "check_model"
    /\ UNCHANGED <<variant, initialized, treq, tnonce, attReply, served, notTalk>>

\* tls: if not client.check_support_model(chat_data.ai_model): return {"error": ...}
\* mcp: elif chat_data.ai_model == "": return {"error": "empty ai_model"}
TalkCheckModel ==
    /\ tpc = "check_model"
    /\ effects' = Append(effects, "check_model")
    /\ IF variant = "tls" /\ ~check_support_model(treq.plain.ai_model)
          THEN reply' = ErrorReply("invalid ai model") /\ tpc' = "replied"
       ELSE IF variant = "mcp" /\ treq.plain.ai_model = ""
          THEN reply' = ErrorReply("empty ai_model") /\ tpc' = "replied"
       ELSE reply' = reply /\ tpc' = "call"
    /\ UNCHANGED <<variant, initialized, treq, tnonce, attReply, served, notTalk>>

\* tls: client.call(chat_data.ai_model, chat_data.message)
\* mcp: create_toolkit_and_run(session, chat_data.api_key, chat_data.message)
\* the provider answers, or the call raises
TalkCall ==
    /\ tpc = "call"
    /\ effects' = Append(effects, "provider_call")
    /\ \E ok \in BOOLEAN :
          IF ok THEN reply' = reply /\ tpc' = "respond"
                ELSE reply' = Crash("provider") /\ tpc' = "replied"
    /\ UNCHANGED <<variant, initialized, treq, tnonce, attReply, served, notTalk>>

\* coin: the requests of send_verify_request to the sparsity endpoint; an error
\* or a bad signature comes back as a JSONResponse, on which the caller's
\* .get / [] raises
TalkForward ==
    /\ tpc = "forward"
    /\ effects' = Append(effects, "forward")
    /\ \E ok \in BOOLEAN :
          IF ok THEN reply' = reply /\ tpc' = "respond"
                ELSE reply' = Crash("AttributeError") /\ tpc' = "replied"
    /\ UNCHANGED <<variant, initialized, treq, tnonce, attReply, served, notTalk>>

\* the data the handler answers with
TalkData == <<variant, treq.plain.platform, treq.plain.ai_model, "response">>

\* return self.response(data)
TalkRespond ==
    /\ tpc = "respond"
    /\ effects' = Append(effects, "sign")
    /\ reply' = Response(TalkData)
    /\ tpc' = "replied"
    /\ UNCHANGED <<variant, initialized, treq, tnonce, attReply, served, notTalk>>

\* the answer is sent; the process serves the next request
TalkDone ==
    /\ tpc = "replied"
    /\ served' = served + 1
    /\ tpc' = "idle"
    /\ UNCHANGED <<variant, initialized, treq, tnonce, effects, reply, attReply, notTalk>>

NextTalk ==
    \/ Attestation
    \/ TalkRequest
    \/ TalkInitKeys
    \/ TalkNonce
    \/ TalkDecrypt
    \/ TalkParse
    \/ TalkCheckApiKey
    \/ TalkCheckPlatform
    \/ TalkCheckModel
    \/ TalkCall
    \/ TalkForward
    \/ TalkRespond
    \/ TalkDone

\* an enclave app serving /attestation and /talk
SpecTalk == InitTalk /\ [][NextTalk]_vars

\* APP.__init__ has run, with or without vsock: the key manager it made has
\* generated its key pair, its nonce and its document
InitIdentity ==
    /\ SupIdle
    /\ SniIdle
    /\ ProxyIdle
    /\ CallerIdle
    /\ CryptoIdle
    /\ variant \in Variants
    /\ appVsock \in BOOLEAN
    /\ \E pair \in KeyPairs : \E rnd \in Randoms :
          key = FixedKeyManager(KeyManagerKind(appVsock), pair, rnd)
    /\ qreply = NoReply
    /\ initialized = FALSE
    /\ treq = NoRequest
    /\ tpc = "idle"
    /\ tnonce = <<>>
    /\ effects = <<>>
    /\ reply = NoReply
    /\ attReply = NoAttReply
    /\ served = 0

NextIdentity ==
    \/ NextTalk
    \/ Ping
    \/ Query

\* an enclave app serving its four routes
SpecIdentity == InitIdentity /\ [][NextIdentity]_vars

(***************************************************************************)
(* The callers of a TEE: ClientRequest (coin-price-bot/local/sample_code/  *)
(* client.py) and APP of coin-price-bot as the client of the sparsity      *)
(* endpoint (init_keys, verify_attestation, send_verify_request).          *)
(***************************************************************************)
MaxUrls == 2

Callers == {"client", "enclave"}

\* what GET /attestation returns: no reply (NoAttestation), or a document with its
\* public key, what Verifier.verify_attestation returns for it (genuine), and
\* whether the reply carries "mock": true
AttReplies ==
    {NoAttestation} \cup
        {[mock |-> m, genuine |-> g, key |-> IF g THEN AppKey ELSE OtherKey] :
            m \in BOOLEAN, g \in BOOLEAN}

\* what POST /talk returns: nothing usable, {"error": ...}, or {"sig", "data"}
\* with what Verifier.verify_signature returns for it under the recorded key
Responses == [kind : {"none", "error", "data"}, genuineSig : BOOLEAN]

notCaller == <<supVars, sniVars, pxVars, talkVars, idVars, cryptoVars>>

\* a caller is constructed against a peer
InitCaller ==
    /\ SupIdle
    /\ SniIdle
    /\ ProxyIdle
    /\ TalkIdle
    /\ CryptoIdle
    /\ caller \in Callers
    /\ att \in AttReplies
    /\ cpc = "verify_attestation"
    /\ public_key = ""
    /\ validated = FALSE
    /\ step = "none"
    /\ sent = 0
    /\ resp = NoResponse
    /\ checked = "no"
    /\ used = {}
    /\ urlsLeft = 0

\* verify_attestation: with "mock" in the reply the document is taken as it is;
\* otherwise Verifier.verify_attestation decides.  No reply: the client's
\* requests.get raises, the enclave's except returns False.
verify_attestation(a) ==
    IF a = NoAttestation THEN [result |-> FALSE, byVerifier |-> FALSE]
    ELSE IF a.mock THEN [result |-> TRUE, byVerifier |-> FALSE]
    ELSE [result |-> a.genuine, byVerifier |-> a.genuine]

\* init_keys: if not self.verify_attestation(): raise Exception('Attestation failed')
\* self.public_key = self.att["public_key"].hex()
CallerInitKeys ==
    /\ cpc = "verify_attestation"
    /\ IF verify_attestation(att).result
          THEN /\ public_key' = att.key
               /\ validated' = verify_attestation(att).byVerifier
               /\ cpc' = "ready"
               /\ step' = "url"
          ELSE /\ cpc' = "attestation_failed"
               /\ UNCHANGED <<public_key, validated, step>>
    /\ UNCHANGED <<caller, att, sent, resp, checked, used, urlsLeft, notCaller>>

\* the request is encrypted to the recorded key and posted to /talk
CallerSend ==
    /\ cpc = "ready"
    /\ sent' = sent + 1
    /\ cpc' = "await"
    /\ checked' = "no"
    /\ UNCHANGED <<caller, att, public_key, validated, step, resp, used, urlsLeft, notCaller>>

\* the peer answers
CallerReceive ==
    /\ cpc = "await"
    /\ resp' \in Responses
    /\ cpc' = "got"
    /\ UNCHANGED <<caller, att, public_key, validated, step, sent, checked, used, urlsLeft,
                   notCaller>>

\* what follows the exchange at step st when n summaries remain to be asked
StepAfter(st, n) == IF st = "final" THEN "none" ELSE IF n > 0 THEN "summary" ELSE "final"

\* the caller relies on the data of resp
Use == used \cup {[step |-> step, checked |-> checked, validated |-> validated]}

\* client: url_resp["data"]["response"], summary_resp["data"]["response"]:
\* the data is used as it came; KeyError without "data"
ClientUse ==
    /\ caller = "client"
    /\ cpc = "got"
    /\ step \in {"url", "summary"}
    /\ IF resp.kind # "data"
          THEN /\ cpc' = "raised"
               /\ UNCHANGED <<step, used, urlsLeft>>
          ELSE /\ used' = Use
               /\ \E n \in 0..MaxUrls :
                     /\ urlsLeft' = IF step = "url" THEN n ELSE urlsLeft - 1
                     /\ n = 0 \/ step = "url"
                     /\ step' = StepAfter(step, urlsLeft')
               /\ cpc' = "ready"
    /\ UNCHANGED <<caller, att, public_key, validated, sent, resp, checked, notCaller>>

\* client: print("verify signature:", self.verify_sig(final_resp["data"], final_resp["sig"]))
ClientVerifySig ==
    /\ caller = "client"
    /\ cpc = "got"
    /\ step = "final"
    /\ IF resp.kind # "data"
          THEN cpc' = "raised" /\ checked' = checked
          ELSE cpc' = "return" /\ checked' = IF resp.genuineSig THEN "true" ELSE "false"
    /\ UNCHANGED <<caller, att, public_key, validated, step, sent, resp, used, urlsLeft,
                   notCaller>>

\* client: return final_resp["data"]["response"]
ClientReturn ==
    /\ caller = "client"
    /\ cpc = "return"
    /\ used' = Use
    /\ cpc' = "done"
    /\ step' = StepAfter(step, urlsLeft)
    /\ UNCHANGED <<caller, att, public_key, validated, sent, resp, checked, urlsLeft,
                   notCaller>>

\* enclave: send_verify_request after custom_post: resp.get("error") raises on
\* None; an error reply or a signature that does not verify is handed back as a
\* JSONResponse, on which talk_to_ai's .get / ["data"] raises
EnclaveVerify ==
    /\ caller = "enclave"
    /\ cpc = "got"
    /\ IF resp.kind # "data"
          THEN cpc' = "raised" /\ checked' = checked
          ELSE /\ checked' = IF resp.genuineSig THEN "true" ELSE "false"
               /\ cpc' = IF resp.genuineSig THEN "use" ELSE "raised"
    /\ UNCHANGED <<caller, att, public_key, validated, step, sent, resp, used, urlsLeft,
                   notCaller>>

\* enclave: url_res["data"]["response"], summary_resp["data"]["response"],
\* req_resp_pairs.append(final_resp)
EnclaveUse ==
    /\ caller = "enclave"
    /\ cpc = "use"
    /\ used' = Use
    /\ \E n \in 0..MaxUrls :
          /\ urlsLeft' = IF step = "url" THEN n ELSE IF step = "summary" THEN urlsLeft - 1 ELSE 0
          /\ n = 0 \/ step = "url"
          /\ step' = StepAfter(step, urlsLeft')
    /\ cpc' = IF step = "final" THEN "done" ELSE "ready"
    /\ UNCHANGED <<caller, att, public_key, validated, sent, resp, checked, notCaller>>

NextCaller ==
    \/ CallerInitKeys
    \/ CallerSend
    \/ CallerReceive
    \/ ClientUse
    \/ ClientVerifySig
    \/ ClientReturn
    \/ EnclaveVerify
    \/ EnclaveUse

\* one caller, from its construction to the end of one chat
SpecCaller == InitCaller /\ [][NextCaller]_vars

(***************************************************************************)
(* The primitives of the key managers as the apps and the client use them: *)
(* encrypt / decrypt around a /talk request (client.py chat, app.py        *)
(* talk_to_ai) and sign / verify_signature around a response (app.py       *)
(* response, client.py verify_sig).  Signer and Verifier themselves are    *)
(* modelled as ideal primitives.                                           *)
(***************************************************************************)
ClientKey == "client-key"

\* the key pairs of the parties
Parties == {AppKey, OtherKey, ClientKey}

\* the key pair a public key belongs to
PairOf(pub) == pub[2]

\* the secret the key exchange derives from one side's private key and the other
\* side's public key: the same from both sides
SharedSecret(pair, peer_pub) == {pair, PairOf(peer_pub)}

\* Signer.encrypt(peer_pub, nonce, plaintext), called on the key pair `pair`
encrypt(pair, peer_pub, nonce, plaintext) ==
    [secret |-> SharedSecret(pair, peer_pub), nonce |-> nonce, plain |-> plaintext]

\* Signer.decrypt(peer_pub, nonce, ciphertext), called on the key pair `pair`:
\* the plaintext, or an authentication error
decrypt(pair, peer_pub, nonce, ciphertext) ==
    IF ciphertext.secret = SharedSecret(pair, peer_pub) /\ ciphertext.nonce = nonce
       THEN [op |-> "decrypt", ok |-> TRUE, plain |-> ciphertext.plain]
       ELSE [op |-> "decrypt", ok |-> FALSE, plain |-> <<>>]

\* Verifier.verify_signature(pub_key, msg, signature)
verify_signature(pub_key, msg, signature) == signature = Sign(PairOf(pub_key), msg)

\* the nonces a sender draws
CallNonces == {NonceOfLen(MinNonceLen), [NonceOfLen(MinNonceLen) EXCEPT ![1] = 1]}

\* the payloads: serialized JSON, as bytes
Payloads == {<<>>, <<123>>, <<123, 125>>}

Calls ==
    [op : {"encrypt", "sign"}, sender : Parties, recipient : Parties, receiver : Parties,
     nonce : CallNonces, M : Payloads]

notCrypto == <<supVars, sniVars, pxVars, talkVars, callerVars, idVars>>

\* a sender is about to address recipient; receiver is the party that will get
\* what is sent
InitCrypto ==
    /\ SupIdle
    /\ SniIdle
    /\ ProxyIdle
    /\ TalkIdle
    /\ CallerIdle
    /\ cin \in Calls
    /\ wire = NoWire
    /\ cout = NoOut

\* chat: req = {"nonce": nonce.hex(), "public_key": self.signer.get_public_key_der().hex(),
\*              "data": self.signer.encrypt(bytes.fromhex(self.public_key), nonce, ...).hex()}
Encrypt ==
    /\ cin.op = "encrypt"
    /\ wire = NoWire
    /\ wire' = [kind |-> "request", nonce |-> Hex(cin.nonce),
                public_key |-> PublicKeyOf(cin.sender),
                body |-> <<encrypt(cin.sender, PublicKeyOf(cin.recipient), cin.nonce, cin.M)>>,
                sig |-> NoSig]
    /\ UNCHANGED <<cin, cout, notCrypto>>

\* the request reaches the receiver with another nonce than the sender used
WrongNonce ==
    /\ wire.kind = "request"
    /\ cout = NoOut
    /\ \E n \in CallNonces :
          /\ Hex(n) # wire.nonce
          /\ wire' = [wire EXCEPT !.nonce = Hex(n)]
    /\ UNCHANGED <<cin, cout, notCrypto>>

\* the request reaches the receiver with another public key than the sender's
WrongKey ==
    /\ wire.kind = "request"
    /\ cout = NoOut
    /\ \E k \in Parties :
          /\ PublicKeyOf(k) # wire.public_key
          /\ wire' = [wire EXCEPT !.public_key = PublicKeyOf(k)]
    /\ UNCHANGED <<cin, cout, notCrypto>>

\* a receiver that decrypts under a nonce of its own
DecryptCallOwnNonce(pair, req) ==
    decrypt(pair, req.public_key, NonceOfLen(MinNonceLen), req.body[1])

\* talk_to_ai: nonce = bytes.fromhex(req.nonce); public_key = bytes.fromhex(req.public_key);
\* data = bytes.fromhex(req.data); raw_data = self.key.decrypt(public_key, nonce, data)
DecryptCall(pair, req) ==
    decrypt(pair, req.public_key, FromHex(req.nonce).val, req.body[1])

Decrypt ==
    /\ wire.kind = "request"
    /\ cout = NoOut
    /\ cout' = DecryptCall(cin.receiver, wire)
    /\ UNCHANGED <<cin, wire, notCrypto>>

\* response: {"sig": self.key.sign(data).hex(), "data": data}
SignResponse ==
    /\ cin.op = "sign"
    /\ wire = NoWire
    /\ wire' = [kind |-> "response", nonce |-> <<>>, public_key |-> <<>>, body |-> cin.M,
                sig |-> Sign(cin.sender, cin.M)]
    /\ UNCHANGED <<cin, cout, notCrypto>>

\* one byte of the data differs when the response arrives
FlipByte ==
    /\ wire.kind = "response"
    /\ cout = NoOut
    /\ wire.body = cin.M
    /\ \E i \in DOMAIN wire.body : \E d \in {1, 255} :
          wire' = [wire EXCEPT !.body[i] = (@ + d) % 256]
    /\ UNCHANGED <<cin, cout, notCrypto>>

\* a verification that looks at the signer only
VerifySigSignerOnly(pub, d, sig) == sig.by = PairOf(pub)

\* verify_sig: Verifier.verify_signature(pub_key=bytes.fromhex(self.public_key),
\*                                       msg=data, signature=bytes.fromhex(sig))
verify_sig(pub, d, sig) == verify_signature(pub, d, sig)

\* the receiver of the response verifies it under the public key it holds for
\* the party it addressed
VerifySig ==
    /\ wire.kind = "response"
    /\ cout = NoOut
    /\ cout' = [op |-> "verify", ok |-> verify_sig(PublicKeyOf(cin.recipient), wire.body, wire.sig),
                plain |-> <<>>]
    /\ UNCHANGED <<cin, wire, notCrypto>>

NextCrypto ==
    \/ Encrypt
    \/ WrongNonce
    \/ WrongKey
    \/ Decrypt
    \/ SignResponse
    \/ FlipByte
    \/ VerifySig

\* one message between two parties, sealed or signed
SpecCrypto == InitCrypto /\ [][NextCrypto]_vars

(***************************************************************************)
(* Properties of handle_connection and of the relay.                       *)
(***************************************************************************)
\* handle_connection has decided whether to dial
PastExtraction == hpc \notin {"idle", "peek", "extract"}

\* C6: the proxy dials only when extract_sni returned a hostname for the peeked
\* bytes, once, and only (that hostname, 443); when the peek is empty or the
\* extraction fails nothing is dialed, nothing is forwarded, no relay runs and the
\* handler ends with the inbound connection closed
C6_FailClosed ==
    /\ dials # <<>> =>
          /\ Len(dials) = 1
          /\ data # <<>>
          /\ extract_sni(data) # None
          /\ dials[1] = <<extract_sni(data).name, 443>>
    /\ outOpen => dials # <<>>
    /\ (PastExtraction /\ (data = <<>> \/ extract_sni(data) = None)) =>
          /\ dials = <<>>
          /\ ~outOpen
          /\ \A c \in Conns : written[c] = <<>>
          /\ \A t \in {1, 2} : task[t].pc = "idle"
          /\ hpc \in {"early_close", "exc_close", "wait_closed", "done"}
          /\ hpc = "done" => closed["in"]

\* a peek from which no hostname comes was dropped
C6_Witness ==
    /\ hpc = "done"
    /\ data # <<>>
    /\ At(data, 0) = 22
    /\ extract_sni(data) = None
    /\ closed["in"]
    /\ dials = <<>>

\* C9: the peek is written to the outbound connection once, after the dial to
\* (hostname, 443) and before the relay tasks start; what is written outbound is
\* always the peek followed by the client's later bytes in order (a prefix of what
\* the client sent), and what is written back to the client is a prefix of what
\* the destination sent
C9_PeekReplayedThenRelayed ==
    /\ peekWrites <= 1
    /\ (\E t \in {1, 2} : task[t].pc # "idle") =>
          (peekWrites = 1 /\ hpc \in {"await_gather", "exc_close", "wait_closed", "done"})
    /\ written["out"] # <<>> =>
          /\ outOpen
          /\ sni.ok
          /\ dials = <<<<sni.name, 443>>>>
          /\ peekWrites = 1
          /\ IsPrefix(data, written["out"])
    /\ IsPrefix(written["out"], Flatten(client))
    /\ IsPrefix(written["in"], Flatten(dest))
    /\ written["in"] # <<>> => peekWrites = 1

\* a partial peek was replayed and the relay carried the rest, both ways
C9_Witness ==
    /\ Len(data) < Len(HelloBytes(hello))
    /\ written["out"] = Flatten(client)
    /\ written["in"] = Flatten(dest)
    /\ written["in"] # <<>>
    /\ hpc = "done"

\* one direction of the relay has reached end of stream or has failed
SessionEnding == \E t \in {1, 2} : task[t].pc \in {"close", "wait_closed", "done", "raised"}

\* both connections are closed and both pipe tasks have finished
SessionClosed ==
    /\ closed["in"]
    /\ closed["out"]
    /\ \A t \in {1, 2} : task[t].pc \in {"done", "raised"}

\* C10: once either direction of a relayed session reaches end of stream or
\* fails, eventually both connections are closed and both pipe tasks have finished
C10_RelayClosesBothSides == SessionEnding ~> SessionClosed

(***************************************************************************)
(* Properties of Handler.pipe.                                             *)
(***************************************************************************)
\* pipe has returned or raised
Finished(t) == task[t].pc \in {"done", "raised", "cancelled"}

\* what the claim lets end pipe quietly: a reset, a broken pipe, a socket that is
\* not connected, a cancellation
BenignEndings == {"ECONNRESET", "EPIPE", "ENOTCONN", "CancelledError"}

\* C11: a reset, broken pipe or not-connected error raised in the loop, and a
\* cancellation delivered at any await of pipe, make pipe return normally with its
\* writer closed; any other OSError is re-raised once the writer is closed
C11_BenignEndsNormally ==
    \A t \in {1, 2} :
        /\ Finished(t) => closed[WriterOf(t)]
        /\ (Finished(t) /\ (task[t].canc \/ task[t].caught \in BenignEndings)) => task[t].pc = "done"
        /\ (Finished(t) /\ task[t].caught \in ErrKinds /\ task[t].caught \notin BenignEndings) =>
              (task[t].pc = "raised" /\ task[t].exc = task[t].caught)

\* C11 amended: as C11 for the errors raised in the loop and for a cancellation
\* delivered while pipe awaits read or drain; a cancellation delivered while pipe
\* awaits wait_closed in its finally block makes pipe raise CancelledError, the
\* writer already closed
C11_BenignInLoopEndsNormally ==
    \A t \in {1, 2} :
        /\ Finished(t) => closed[WriterOf(t)]
        /\ task[t].pc = "done" =>
              (task[t].exc = "none" /\ (task[t].caught = "none" \/ task[t].caught \in BenignEndings))
        /\ task[t].pc = "raised" =>
              (task[t].caught \in ErrKinds /\ task[t].caught \notin BenignEndings
               /\ task[t].exc = task[t].caught)
        /\ task[t].pc = "cancelled" =>
              (task[t].canc /\ task[t].caught # "CancelledError"
               /\ task[t].exc = "CancelledError")
        /\ (Finished(t) /\ task[t].caught = "CancelledError") => task[t].pc = "done"
        /\ (Finished(t) /\ task[t].caught \in BenignEndings /\ ~task[t].canc) => task[t].pc = "done"
        /\ (Finished(t) /\ task[t].caught \in ErrKinds /\ task[t].caught \notin BenignEndings
              /\ ~task[t].canc) => task[t].pc = "raised"

\* one direction ended normally on a cancellation in its loop, the other re-raised
\* an error that is not benign
C11_Witness ==
    /\ task[1].pc = "done"
    /\ task[1].caught = "CancelledError"
    /\ task[2].pc = "raised"
    /\ task[2].caught = "ETIMEDOUT"
    /\ closed["in"]
    /\ closed["out"]

\* pipe(reader, client_writer) starts after the peek was read and replayed
PipeBase(t) == IF t = 1 THEN Len(data) ELSE 0

\* the bytes pipe t has read from its reader, in order
ReadBy(t) ==
    SubSeq(Flatten(Incoming(ReaderOf(t))), PipeBase(t) + 1, rpos[ReaderOf(t)])

\* the bytes pipe t has written to its writer, in order
WrittenBy(t) ==
    SubSeq(written[WriterOf(t)], PipeBase(t) + 1, Len(written[WriterOf(t)]))

\* pipe t left its loop by `if not data: break`
EndedByEof(t) == task[t].pc \in {"close", "wait_closed", "done"} /\ task[t].caught = "none"

\* C12: in each direction what pipe has written is at every moment a prefix of
\* what it has read, and it is all of it once the direction ended by end of stream
C12_ForwardedInOrder ==
    \A t \in {1, 2} :
        /\ IsPrefix(WrittenBy(t), ReadBy(t))
        /\ EndedByEof(t) => WrittenBy(t) = ReadBy(t)

\* the destination's long answer was forwarded whole, in more than one chunk, and
\* the direction ended by end of stream
C12_Witness ==
    /\ task[2].pc = "done"
    /\ EndedByEof(2)
    /\ Len(WrittenBy(2)) > ChunkSize
    /\ WrittenBy(2) = Flatten(dest)
    /\ WrittenBy(1) = ClientAppData

\* the other direction of the session
Other(t) == 3 - t

\* pipe t waits in drain for its congested writer, or in read for bytes
Suspended(t) ==
    \/ task[t].pc = "drain" /\ DrainOutcome(WriterOf(t)).kind = "suspend"
    \/ task[t].pc = "read" /\ ReadOutcome(ReaderOf(t), ChunkSize).kind = "suspend"

\* C13: while one direction is suspended in drain or in read, the other direction
\* can take its next step: it reads what has arrived for it, writes the chunk it
\* holds, and its drain completes unless its own writer is congested
C13_DirectionsIndependent ==
    \A t \in {1, 2} :
        Suspended(Other(t)) =>
            /\ (task[t].pc = "read" /\ Unread(ReaderOf(t)) # <<>>
                  /\ lost[ReaderOf(t)] \notin ErrKinds) => ENABLED PipeRead(t)
            /\ task[t].pc = "write" => ENABLED PipeWrite(t)
            /\ (task[t].pc = "drain" /\ ~congested[WriterOf(t)]) => ENABLED PipeDrain(t)

\* the client direction is stuck in drain on the congested destination while the
\* destination's long answer has been forwarded whole to the client
C13_Witness ==
    /\ task[1].pc = "drain"
    /\ congested["out"]
    /\ Suspended(1)
    /\ Len(Flatten(dest)) > ChunkSize
    /\ WrittenBy(2) = Flatten(dest)
    /\ task[2].pc = "read"

\* C14: a direction holds at most one chunk of at most 4096 bytes, only between
\* its read and the end of its drain; when it reads, everything it read before has
\* been written and drained
C14_OneChunkInFlight ==
    \A t \in {1, 2} :
        /\ Len(task[t].chunk) <= ChunkSize
        /\ task[t].chunk # <<>> => task[t].pc \in {"write", "drain"}
        /\ task[t].pc = "write" => ReadBy(t) = WrittenBy(t) \o task[t].chunk
        /\ task[t].pc = "drain" => ReadBy(t) = WrittenBy(t)
        /\ task[t].pc = "read" => (task[t].chunk = <<>> /\ ReadBy(t) = WrittenBy(t))
        /\ Len(ReadBy(t)) - Len(WrittenBy(t)) <= ChunkSize

\* more than one chunk was waiting and the direction took exactly 4096 bytes of it
C14_Witness ==
    /\ task[2].pc = "write"
    /\ Len(task[2].chunk) = ChunkSize
    /\ Unread("out") # <<>>
    /\ WrittenBy(2) = <<>>

(***************************************************************************)
(* Properties of APP.talk_to_ai and APP.response.                          *)
(***************************************************************************)
\* a request is being handled or was answered
HasRequest == treq # NoRequest

\* the decoded nonce of the request, when req.nonce is valid hex
NonceLen == Len(FromHex(treq.nonce).val)

Did(e) == \E i \in 1..Len(effects) : effects[i] = e

\* C17: the key manager's decrypt is called only for a nonce that decodes to at
\* least 8 bytes, and a request whose nonce has exactly 8 bytes goes on to decrypt
C17_NonceCheckedBeforeDecrypt ==
    /\ Did("decrypt") => (FromHex(treq.nonce).ok /\ NonceLen >= 8)
    /\ tpc = "decrypt" => (FromHex(treq.nonce).ok /\ NonceLen >= 8 /\ tnonce = FromHex(treq.nonce).val)
    /\ (HasRequest /\ FromHex(treq.nonce).ok /\ NonceLen < 8) =>
          reply.kind \in {"none", "error", "crash"}
    /\ (HasRequest /\ FromHex(treq.nonce).ok /\ NonceLen = 8 /\ tpc \in {"replied", "idle"}
          /\ reply # Crash("Attestation failed")) => Did("decrypt")

\* decrypt was called for a nonce of exactly 8 bytes
C17_Witness ==
    /\ Did("decrypt")
    /\ Len(tnonce) = 8
    /\ treq.nonce = Hex(tnonce)

\* C18: in every app variant and in every state of the app, a request with a
\* 4-byte nonce is answered with exactly the nonce error, and nothing else is
\* done for it first
C18_ShortNonceAnswered ==
    (HasRequest /\ FromHex(treq.nonce).ok /\ NonceLen = 4) =>
        /\ effects = <<>>
        /\ tpc \in {"replied", "idle"} =>
              reply = ErrorReply("invalid nonce, must be at least 8 characters long")

\* what the variant's own checks accept of a decrypted ChatData
PayloadAccepted ==
    /\ treq.plain.kind = "chat"
    /\ treq.plain.api_key # ""
    /\ variant = "tls" =>
          (treq.plain.platform \in {"openai", "anthropic", "gemini"}
           /\ treq.plain.ai_model = "listed")
    /\ variant = "mcp" => treq.plain.ai_model # ""

\* the order in which the variant reaches its provider
StepsBeforeCall ==
    IF variant = "tls"
       THEN <<"decrypt", "check_api_key", "check_platform", "check_model", "provider_call">>
       ELSE <<"decrypt", "check_api_key", "check_model", "provider_call">>

C20_ResponseSigned ==
    /\ reply.kind = "signed" =>
          /\ reply.sig = Sign(key.pair, reply.body)
          /\ reply.body = TalkData
          /\ attReply # NoAttReply =>
                attReply.attestation_doc.fields.public_key = PublicKeyOf(reply.sig.by)
    /\ Did("sign") <=> reply.kind = "signed"
    /\ reply.kind \in {"none", "error", "crash", "signed"}
    /\ reply.kind # "signed" => reply.sig = NoSig

\* a signed answer, with the attestation document published
C20_Witness ==
    /\ reply.kind = "signed"
    /\ attReply # NoAttReply
    /\ attReply.attestation_doc.fields.public_key = PublicKeyOf(AppKey)
    /\ Did("provider_call")
    /\ tpc = "idle"

(***************************************************************************)
(* Properties of the callers.                                              *)
(***************************************************************************)
\* C15: every response whose data a caller relied on was, before that, checked
\* with verify_signature under the recorded key and found valid, and the recorded
\* key came from an attestation document the Verifier validated
C15_TrustAfterBothSteps ==
    \A u \in used : u.checked = "true" /\ u.validated

\* C16: when the attestation is not validated no key is recorded, nothing is
\* sent and nothing is relied on; a key is recorded only from a document the
\* Verifier validated
C16_NoTrustWithoutValidation ==
    /\ cpc = "attestation_failed" => (public_key = "" /\ sent = 0 /\ used = {})
    /\ sent > 0 => public_key # ""
    /\ public_key # "" => validated

(***************************************************************************)
(* Properties of Server's construction and of the listening handle.        *)
(***************************************************************************)
\* start_workers has returned
StartWorkersDone ==
    mpc.at \in {"mon_while", "mon_for", "mon_alive", "mon_running", "mon_pop", "returned"}

\* C24: a Server constructed with vsock runs exactly 1 worker whatever process_num
\* it was given, a Server constructed without vsock exactly the process_num it was
\* given: that is its process_num, and what start_workers has started when it returns
C24_VsockForcesOneWorker ==
    /\ process_num = IF vsock THEN 1 ELSE requested
    /\ (StartWorkersDone /\ popped = <<>>) =>
          /\ nextPid - 1 = IF vsock THEN 1 ELSE requested
          /\ Len(processes) = IF vsock THEN 1 ELSE requested

\* a vsock Server given process_num 2 monitors its single worker
C24_Witness ==
    /\ vsock
    /\ requested = 2
    /\ mpc.at = "mon_alive"
    /\ Len(processes) = 1
    /\ nextPid = 2

\* the workers whose start_one_worker has not returned
BeingStarted ==
    IF mpc.at \in {"sow_append", "sow_send", "raised"} THEN {mpc.p} ELSE {}

\* C25: the Server has one listening socket, the one its constructor made; every
\* send_handle passes that socket's handle, and each worker whose start_one_worker
\* returned, initial or replacement, was sent it exactly once
C25_OneHandleShared ==
    /\ sockets = 1
    /\ server = 1
    /\ \A n \in DOMAIN fdsSent : fdsSent[n] = server
    /\ Len(fdsSent) = Len(handles)
    /\ Cardinality(Range(handles)) = Len(handles)
    /\ Range(handles) = (1..(nextPid - 1)) \ BeingStarted

\* two initial workers and one replacement were each sent the handle
C25_Witness ==
    /\ Len(popped) = 1
    /\ handles = <<1, 2, 3>>
    /\ fdsSent = <<1, 1, 1>>
    /\ mpc.at = "mon_for"

\* C26: when send_handle fails in start_one_worker the error leaves
\* start_one_worker (Server.start raises), and the worker that was being started
\* never receives a handle and never accepts a connection
C26_FailedTransferEscalated ==
    mpc.at = "raised" => (wfd[mpc.p] = 0 /\ conns[mpc.p] = {})

(***************************************************************************)
(* Properties of the replacement of a dead worker.                         *)
(***************************************************************************)
\* no connection is held by two workers
NotMigrated ==
    \A p \in DOMAIN conns : \A q \in DOMAIN conns : p # q => conns[p] \cap conns[q] = {}

\* a step that takes an entry out of the roster takes out the worker the monitor
\* found dead, which is dead, keeps the others in their order and leaves running alone
RemovesTheDeadOne ==
    Len(processes') < Len(processes) =>
        /\ mpc.p \notin alive
        /\ \E n \in DOMAIN processes :
              /\ processes[n] = mpc.p
              /\ processes' = ListPop(processes, n - 1)
        /\ running' = running
        /\ mpc'.at = "sow_start"

\* a step that starts a worker starts it with no handle and no connection and
\* leaves the connections of every other worker as they are
StartsEmpty ==
    nextPid' > nextPid =>
        /\ wfd'[nextPid] = 0
        /\ conns'[nextPid] = {}
        /\ \A p \in DOMAIN conns : conns'[p] = conns[p]

\* C28: replacing a dead worker removes exactly the worker the monitor found dead
\* and no live one, leaves the other roster entries and running unchanged, and the
\* replacement starts with none of the connections of the dead worker, which stay
\* with it
C28_CrashIsolated == []NotMigrated /\ [][RemovesTheDeadOne /\ StartsEmpty]_vars

\* worker 1 died holding a connection; worker 2 is still in the roster, next to the
\* replacement, which serves and holds no connection
C28_Witness ==
    /\ popped = <<1>>
    /\ processes = <<2, 3>>
    /\ conns[1] # {}
    /\ {2, 3} \subseteq alive
    /\ wfd[3] # 0
    /\ conns[3] = {}
    /\ running

(***************************************************************************)
(* Properties of a failed dial.                                            *)
(***************************************************************************)
\* open_connection was called and gave no connection
DialFailed == dials # <<>> /\ ~outOpen

\* C27: after a failed dial to (hostname, 443) the handler has dialed exactly once,
\* starts no relay, writes nothing to either connection, and goes through its
\* except block to the end, the inbound connection closed
C27_FailedDialAborts ==
    DialFailed =>
        /\ dials = <<<<sni.name, 443>>>>
        /\ \A t \in {1, 2} : task[t].pc = "idle"
        /\ \A c \in Conns : written[c] = <<>>
        /\ peekWrites = 0
        /\ hpc \in {"exc_close", "wait_closed", "done"}
        /\ hpc \in {"wait_closed", "done"} => closed["in"]

\* the handler has ended after a failed dial
C27_Witness ==
    /\ DialFailed
    /\ sni.ok
    /\ hpc = "done"
    /\ closed["in"]
    /\ ~closed["out"]

(***************************************************************************)
(* Properties of the identity of an enclave process.                       *)
(***************************************************************************)
\* every signature the process has answered with is by its key pair, and the
\* document /attestation answered with is the key manager's
OneIdentity ==
    /\ reply.kind = "signed" => reply.sig.by = key.pair
    /\ qreply.kind = "signed" => qreply.sig.by = key.pair
    /\ attReply # NoAttReply =>
          /\ attReply.attestation_doc = key.fixed_document
          /\ attReply.attestation_doc.fields.public_key = PublicKeyOf(key.pair)

\* no step replaces the key manager, and /attestation answers what it answered before
IdentityKept ==
    /\ key' = key
    /\ attReply # NoAttReply => attReply' = attReply

\* C21: the key pair the process was constructed with is never regenerated or
\* changed by a /ping, /attestation, /query or /talk request; /attestation answers
\* the same document every time and every signature is by that key pair
C21_IdentityImmutable == []OneIdentity /\ [][IdentityKept]_vars

\* all four routes were served: a signed /talk answer, a signed /query answer by
\* the same key pair, and the attestation document
C21_Witness ==
    /\ served = 1
    /\ tpc = "idle"
    /\ reply.kind = "signed"
    /\ qreply.kind = "signed"
    /\ qreply.sig.by = reply.sig.by
    /\ attReply # NoAttReply

\* C22: the /attestation reply carries mock: true exactly when the key manager is
\* the mock one and no mock field exactly when it is the hardware one, and the
\* document in it is the one that key manager produced
C22_MockFlagMatchesVariant ==
    attReply # NoAttReply =>
        /\ attReply.mock \in {"true", "absent"}
        /\ attReply.mock = "true" <=> key.kind = "mock"
        /\ attReply.mock = "absent" <=> key.kind = "hardware"
        /\ attReply.attestation_doc = generate_attestation(key.kind, key.pair, key.nonce)
        /\ attReply.attestation_doc.attested <=> attReply.mock = "absent"

\* a hardware-backed process answered /attestation without the flag
C22_Witness ==
    /\ key.kind = "hardware"
    /\ attReply.mock = "absent"
    /\ attReply.attestation_doc.attested

\* C23: the document of a mock key manager has the three fields of the hardware
\* one (public key, hash of the public key, nonce) and a flag of its own that
\* marks it as unattested
C23_MockDocumentShape ==
    key.kind = "mock" =>
        /\ {"public_key", "user_data", "nonce"} \subseteq DOMAIN key.fixed_document.fields
        /\ "mock" \in DOMAIN key.fixed_document.fields

(***************************************************************************)
(* Properties of encrypt / decrypt and of sign / verify.                   *)
(***************************************************************************)
\* the receiver holds one of the two key pairs of the sender's call, names the
\* other one as its peer, and decrypts under the sender's nonce
CallMatched ==
    /\ {cin.receiver, PairOf(wire.public_key)} = {cin.sender, cin.recipient}
    /\ FromHex(wire.nonce).ok
    /\ FromHex(wire.nonce).val = cin.nonce

ReachesSniRecord ==
    /\ data = HelloBytes(hello)
    /\ hello.ctype = 22
    /\ hello.hstype = 1
    /\ hello.hasExts
    /\ hello.hasSni
    /\ hello.before \in OtherExtensions

\* the header of the server_name record lies within the declared extensions
\* block and its declared payload ends beyond the declared end of the block
SniRecordOverrunsBlock ==
    LET start == Len(hello.before)
        declared == Len(ServerNameList(hello.nameType, hello.nameLenDelta, hello.host))
                    + hello.extLenDelta
        end == Len(ExtensionsOf(hello)) + hello.totalDelta
    IN  /\ ReachesSniRecord
        /\ start + 4 <= end
        /\ start + 4 + declared > end

\* C31: when the server_name record's header fits in the declared extensions
\* block but its declared payload runs past the declared end of the block,
\* extract_sni returns None
C31_OverrunningRecordYieldsNone ==
    (xpc = "done" /\ SniRecordOverrunsBlock) => sni = None

\* C34: extract_sni returns None for every input shorter than 6 bytes and for
\* every input whose byte at offset 5 is not the ClientHello type 1
C34_NotClientHelloYieldsNone ==
    (xpc = "done" /\ (Len(data) < 6 \/ At(data, 5) # 1)) => sni = None

\* a whole handshake record of another type that carries a server name
C34_Witness ==
    /\ xpc = "done"
    /\ data = HelloBytes(hello)
    /\ hello.ctype = 22
    /\ hello.hstype = 2
    /\ hello.hasSni
    /\ hello.host # <<>>
    /\ sni = None

\* C35: when the first entry of the first server_name extension has a name type
\* other than 0, extract_sni returns None, whatever extensions follow
C35_BadNameTypeAborts ==
    (xpc = "done" /\ ReachesSniRecord /\ hello.nameType # 0) => sni = None

\* a later server_name extension with name type 0 follows the refused one
C35_Witness ==
    /\ xpc = "done"
    /\ ReachesSniRecord
    /\ hello.nameType = 255
    /\ hello.after = Extension(0, 0, ServerNameList(0, 0, <<97, 46>>))
    /\ sni = None

\* the peek is a whole well-formed ClientHello without a server_name extension
NoSniPeeked == hello \in NoSniHellos /\ data = HelloBytes(hello)

\* C36: for a well-formed ClientHello without a server_name extension
\* extract_sni returns None, and the proxy dials nothing and ends with the
\* inbound connection closed
C36_NoSniNoDial ==
    (PastExtraction /\ NoSniPeeked) =>
        /\ sni = None
        /\ dials = <<>>
        /\ ~outOpen
        /\ hpc \in {"early_close", "exc_close", "wait_closed", "done"}
        /\ hpc = "done" => closed["in"]

\* a ClientHello with an extension of another type only was dropped
C36_Witness ==
    /\ hpc = "done"
    /\ NoSniPeeked
    /\ hello.hasExts
    /\ hello.before # <<>>
    /\ sni = None
    /\ dials = <<>>
    /\ closed["in"]

\* C37: the proxy never dials an empty hostname
C37_NoDialOfEmptyName ==
    \A i \in DOMAIN dials : dials[i][1] # <<>>

(***************************************************************************)
(* Properties of the monitor loop and of the supervisor's termination.     *)
(***************************************************************************)
\* C32: when a pass of the monitor ends with running true, no shutdown invoked
\* and no worker having died during the pass, every worker that was dead when the
\* pass began has been removed from the roster (and so replaced) in that pass
C32_NoEntrySkipped ==
    (/\ mpc.at = "mon_while"
     /\ passes >= 1
     /\ running
     /\ sigCount = 0
     /\ passQuiet) =>
        passDead \cap Range(processes) = {}

\* C33: once shutdown() has set running to false, running stays false and the
\* monitor starts no replacement worker any more
C33_ShutdownIsFinal ==
    [][/\ ~running => ~running'
       /\ (~running /\ mpc.ret = "mon") => nextPid' = nextPid]_vars

(***************************************************************************)
(* Properties of the tunnel handlers.                                      *)
(***************************************************************************)
\* C38: when the outbound connect of HostConnectionHandler / LoopbackHandler has
\* failed, it was attempted once, no relay task was started and the handler has
\* ended with the inbound connection closed
C38_FailedConnectAborts ==
    (hpc = "raised" /\ DialFailed) =>
        /\ Len(dials) = 1
        /\ \A t \in {1, 2} : task[t].pc = "idle"
        /\ closed["in"]

(***************************************************************************)
(* Properties of the relaying enclave's talk_to_ai.                        *)
(***************************************************************************)
\* the destination's reply to the last request is missing, carries an error, or
\* carries a signature that does not verify
BadReply == resp.kind # "data" \/ ~resp.genuineSig

\* C39: once the enclave has dealt with a reply that is missing, is an error or
\* does not verify, its talk_to_ai has returned an error response to its caller,
\* and the reply's data was never relied on
C39_BadReplyAnswered ==
    (/\ caller = "enclave"
     /\ sent > 0
     /\ cpc \notin {"await", "got"}
     /\ BadReply) =>
        /\ cpc = "error_returned"
        /\ \A u \in used : u.checked = "true"

====
